---- MODULE Spec2Model ----
(***************************************************************************)
(* State-machine model of evm-scanner: the scan loop (pkg/scanner), the     *)
(* block filter, and the RPC node pool (pkg/rpc).                           *)
(*                                                                          *)
(* Three specifications share the variables:                                *)
(*   Spec       the scan loop Scanner.Start with its environment            *)
(*   SpecStart  determineStartBlock applied to a wide set of inputs         *)
(*   SpecPool   MultiClient.execute over a pool of nodes                    *)
(***************************************************************************)
EXTENDS Integers, Sequences, FiniteSets, TLC

\* ------------------------------------------------------------------------
\* Bounds of the model
\* ------------------------------------------------------------------------
\* highest chain head the RPC client reports
MaxHead == 3
\* the scan loop is explored while the end of a range stays within this block
MaxBlock == 5
\* largest value of StartBlock / Rewind / CursorRewind / saved cursor drawn
\* for determineStartBlock
MaxParam == 3

\* ------------------------------------------------------------------------
\* uint64 arithmetic.  TLC integers are 32 bits wide, so the machine word is
\* scaled down to 2^20; every block number the bounds reach is far below it,
\* so the only wrap-around the model can produce is that of a subtraction
\* whose result is negative (as in the code).
\* ------------------------------------------------------------------------
Uint64Mod == 2^20

USub(a, b) == (a - b + Uint64Mod) % Uint64Mod

UAdd(a, b) == (a + b) % Uint64Mod

Max(a, b) == IF a >= b THEN a ELSE b

Min(a, b) == IF a <= b THEN a ELSE b

\* ------------------------------------------------------------------------
\* Filter (pkg/scanner filter): contracts and positional topics
\* ------------------------------------------------------------------------
\* addresses are 1..99, topic hashes are 100..
NewFilter == [Contracts |-> {}, Topics |-> << >>]

\* threshold of IsHeavy
HeavyLimit == 20

IsHeavy(f) ==
    \/ Cardinality(f.Contracts) > HeavyLimit
    \/ \E i \in 1..Len(f.Topics) : Cardinality(f.Topics[i]) > HeavyLimit

\* number of bits of the modelled header bloom (2048 in the chain)
BloomBits == 8

\* the three bit positions an item sets in a bloom (types.Bloom of go-ethereum:
\* three indices taken from the keccak256 of the item)
BloomIdx(x) == {(3 * x) % BloomBits, (5 * x + 1) % BloomBits, (7 * x + 2) % BloomBits}

BloomTest(bloom, x) == BloomIdx(x) \subseteq bloom

MatchesBloom(f, bloom) ==
    /\ (f.Contracts # {} => \E a \in f.Contracts : BloomTest(bloom, a))
    /\ \A i \in 1..Len(f.Topics) :
          f.Topics[i] # {} => \E h \in f.Topics[i] : BloomTest(bloom, h)

\* the logs a block can hold: an address and the topics of the log
LogUniverse == {[addr |-> a, topics |-> <<t>>] : a \in {1, 2}, t \in {100, 101}}

BloomOfAddresses(ls) == UNION {BloomIdx(l.addr) : l \in ls}

\* header bloom of a block holding the logs ls
BloomOf(ls) == UNION {BloomIdx(l.addr) \cup UNION {BloomIdx(l.topics[i]) : i \in 1..Len(l.topics)} : l \in ls}

\* eth_getLogs semantics of the node for one log
LogMatches(f, l) ==
    /\ (f.Contracts = {} \/ l.addr \in f.Contracts)
    /\ \A i \in 1..Len(f.Topics) :
          f.Topics[i] = {} \/ (i <= Len(l.topics) /\ l.topics[i] \in f.Topics[i])

\* ------------------------------------------------------------------------
\* Scanner configuration (scanner.Config after scanner.New)
\* ------------------------------------------------------------------------
DefaultBatchSize == 100

\* New: BatchSize 0 becomes the default
New(cfg) == [cfg EXCEPT !.BatchSize = IF cfg.BatchSize = 0 THEN DefaultBatchSize ELSE cfg.BatchSize]

VARIABLES
    config,        \* scanner.Config
    filter,        \* *Filter
    handlerSet,    \* s.handler != nil
    cursor,        \* the cursor store: persisted height of config.ChainID
    pc,            \* position of Scanner.Start
    retErr,        \* error returned by Start ("" while running)
    ctxDone,       \* the context of Start is cancelled
    currentBlock,  \* local currentBlock of Start
    head,          \* head returned by the last BlockNumber call (0 out of scope)
    safeHead,      \* local safeHead of Start (0 out of scope)
    scanFrom,      \* arguments of the scanRange call in progress
    scanTo,
    last,          \* the last completed scanRange call and what it did
    savedInRun,    \* a SaveCursor call of this run has succeeded
    delivered,     \* highest blocks handed to the handler in this run
    nodes,         \* MultiClient.nodes: configuration and runtime state of each Node
    globalHeight,  \* MultiClient.globalHeight
    calls,         \* the MultiClient.execute call of each caller
    sync,          \* the syncNodes round of the background task
    probe,         \* the last direct call of a Node or pool method and its result
    hook,          \* a webhook.Client and its Send call in progress
    out,           \* a sink.WebhookOutput in async mode and the calls on it
    fan            \* a call of the handler of scanner-cli and its sinks

scanVars == <<config, filter, handlerSet, cursor, pc, retErr, ctxDone,
              currentBlock, head, safeHead, scanFrom, scanTo, last, savedInRun,
              delivered>>

poolVars == <<nodes, globalHeight, calls, sync, probe>>

sinkVars == <<hook, out, fan>>

vars == <<scanVars, poolVars, sinkVars>>

\* ------------------------------------------------------------------------
\* determineStartBlock
\* ------------------------------------------------------------------------
DetermineStartBlockNoGuard(cfg, sv, h) ==
    IF cfg.ForceStart /\ cfg.StartBlock > 0 THEN cfg.StartBlock
    ELSE IF sv > 0 THEN
        IF cfg.CursorRewind > 0 THEN USub(sv, cfg.CursorRewind) ELSE sv
    ELSE IF cfg.StartBlock > 0 THEN cfg.StartBlock
    ELSE USub(h, cfg.Rewind)

\* value returned when LoadCursor returned sv and BlockNumber returned h
DetermineStartBlock(cfg, sv, h) ==
    IF cfg.ForceStart /\ cfg.StartBlock > 0 THEN cfg.StartBlock
    ELSE IF sv > 0 THEN
        IF cfg.CursorRewind > 0
        THEN IF sv > cfg.CursorRewind THEN USub(sv, cfg.CursorRewind) ELSE 0
        ELSE sv
    ELSE IF cfg.StartBlock > 0 THEN cfg.StartBlock
    ELSE IF h > cfg.Rewind THEN USub(h, cfg.Rewind) ELSE 0

\* determineStartBlock calls LoadCursor unless the start is forced
LoadsCursor(cfg) == ~(cfg.ForceStart /\ cfg.StartBlock > 0)

\* determineStartBlock calls BlockNumber only for the dynamic rewind
ReadsHead(cfg, sv) == LoadsCursor(cfg) /\ sv = 0 /\ cfg.StartBlock = 0

NoLast == [res |-> "none", from |-> 0, save |-> "none", header |-> 0,
           filterLogs |-> 0, handler |-> 0, bloomMiss |-> FALSE, lo |-> -1]

NoDelivered == [max |-> -1, maxOk |-> -1]

\* no direct call made yet.  err and flag are the result of the last
\* Node.TryAcquire call and the circuitBroken flag it found; run is the number
\* of calls recorded by RecordMetric when all of them failed, -1 once one
\* succeeded.
NoProbe == [err |-> "", flag |-> FALSE, run |-> 0]

\* no syncNodes round in progress
NoSync == [pc |-> "idle", pending |-> {}, storing |-> {}, maxH |-> 0, answered |-> {},
           rounds |-> 0]

\* no webhook client, sink or handler call is part of the run
NoSink == [pc |-> "none"]

SinkIdle ==
    /\ hook = NoSink
    /\ out = NoSink
    /\ fan = NoSink

ScanInitVars ==
    /\ pc = "start"
    /\ retErr = ""
    /\ ctxDone = FALSE
    /\ currentBlock = 0
    /\ head = 0
    /\ safeHead = 0
    /\ scanFrom = 0
    /\ scanTo = 0
    /\ last = NoLast
    /\ savedInRun = FALSE
    /\ delivered = NoDelivered

ScanInitCommon ==
    /\ ScanInitVars
    /\ nodes = << >>
    /\ globalHeight = 0
    /\ calls = << >>
    /\ sync = NoSync
    /\ probe = NoProbe
    /\ SinkIdle

\* configurations of the scan loop
ConfigSet ==
    { New([ForceStart |-> FALSE, StartBlock |-> 0, Rewind |-> 1, CursorRewind |-> 1,
           BatchSize |-> b, ReorgSafe |-> rs, UseBloom |-> ub]) :
        b \in {0, 1, 2}, rs \in {0, 2}, ub \in BOOLEAN }

\* the filter and the handler the scanner is built with
ScannerSet ==
    { [filter |-> NewFilter, handlerSet |-> TRUE],
      [filter |-> NewFilter, handlerSet |-> FALSE],
      [filter |-> [Contracts |-> {1}, Topics |-> << >>], handlerSet |-> TRUE],
      [filter |-> [Contracts |-> {1}, Topics |-> <<{100}>>], handlerSet |-> TRUE],
      [filter |-> [Contracts |-> 1..21, Topics |-> << >>], handlerSet |-> TRUE] }

Init ==
    /\ config \in ConfigSet
    /\ \E sc \in ScannerSet : filter = sc.filter /\ handlerSet = sc.handlerSet
    /\ cursor \in {0, 2}
    /\ ScanInitCommon

\* Start, lines 62-69: determineStartBlock, then the ticker is created
DetermineStart ==
    /\ pc = "start"
    /\ \E loadOk \in BOOLEAN, headOk \in BOOLEAN, h \in 0..MaxHead :
          LET loads == LoadsCursor(config)
              reads == ReadsHead(config, cursor)
          IN  /\ (~loads => loadOk)
              /\ (~(loads /\ loadOk /\ reads) => (headOk /\ h = 0))
              /\ head' = h
              /\ IF ~loadOk THEN
                     /\ pc' = "done"
                     /\ retErr' = "LoadCursorError"
                     /\ UNCHANGED currentBlock
                 ELSE IF ~headOk THEN
                     /\ pc' = "done"
                     /\ retErr' = "BlockNumberError"
                     /\ UNCHANGED currentBlock
                 ELSE
                     /\ pc' = "select"
                     /\ retErr' = ""
                     /\ currentBlock' = DetermineStartBlock(config, cursor, h)
    /\ UNCHANGED <<config, filter, handlerSet, cursor, ctxDone, safeHead, scanFrom,
                   scanTo, last, savedInRun, delivered>>
    /\ UNCHANGED <<poolVars, sinkVars>>

\* ------------------------------------------------------------------------
\* Environment of the scan loop
\* ------------------------------------------------------------------------
\* the caller cancels the context passed to Start
Cancel ==
    /\ ~ctxDone
    /\ pc # "done"
    /\ ctxDone' = TRUE
    /\ UNCHANGED <<config, filter, handlerSet, cursor, pc, retErr, currentBlock,
                   head, safeHead, scanFrom, scanTo, last, savedInRun, delivered>>
    /\ UNCHANGED <<poolVars, sinkVars>>

\* ------------------------------------------------------------------------
\* Scanner.Start, the loop
\* ------------------------------------------------------------------------
\* outer select, case <-ctx.Done()
SelectDone ==
    /\ pc = "select"
    /\ ctxDone
    /\ pc' = "done"
    /\ retErr' = "Canceled"
    /\ UNCHANGED <<config, filter, handlerSet, cursor, ctxDone, currentBlock, head,
                   safeHead, scanFrom, scanTo, last, savedInRun, delivered>>
    /\ UNCHANGED <<poolVars, sinkVars>>

SafeHeadNoReorg(h, reorgSafe) == h

\* safeHead := head - s.config.ReorgSafe, in uint64
SafeHead(h, reorgSafe) == USub(h, reorgSafe)

\* outer select, case <-ticker.C (a tick arrives): read the head and compute
\* the safe head; continue when BlockNumber fails or when there is no new block
SelectTick ==
    /\ pc = "select"
    /\ \E ok \in BOOLEAN, h \in 0..MaxHead :
          IF ~ok THEN
              /\ h = 0
              /\ head' = 0
              /\ UNCHANGED <<pc, safeHead>>
          ELSE IF SafeHead(h, config.ReorgSafe) < currentBlock THEN
              /\ head' = 0
              /\ UNCHANGED <<pc, safeHead>>
          ELSE
              /\ head' = h
              /\ safeHead' = SafeHead(h, config.ReorgSafe)
              /\ pc' = "loop"
    /\ UNCHANGED <<config, filter, handlerSet, cursor, retErr, ctxDone,
                   currentBlock, scanFrom, scanTo, last, savedInRun, delivered>>
    /\ UNCHANGED <<poolVars, sinkVars>>

\* the catch-up loop ends: currentBlock > safeHead
LoopExit ==
    /\ pc = "loop"
    /\ ~(currentBlock <= safeHead)
    /\ pc' = "select"
    /\ head' = 0
    /\ safeHead' = 0
    /\ UNCHANGED <<config, filter, handlerSet, cursor, retErr, ctxDone,
                   currentBlock, scanFrom, scanTo, last, savedInRun, delivered>>
    /\ UNCHANGED <<poolVars, sinkVars>>

\* top of the catch-up loop, case <-ctx.Done()
LoopCancelled ==
    /\ pc = "loop"
    /\ currentBlock <= safeHead
    /\ ctxDone
    /\ pc' = "done"
    /\ retErr' = "Canceled"
    /\ head' = 0
    /\ safeHead' = 0
    /\ UNCHANGED <<config, filter, handlerSet, cursor, ctxDone, currentBlock,
                   scanFrom, scanTo, last, savedInRun, delivered>>
    /\ UNCHANGED <<poolVars, sinkVars>>

EndBlockOneMore(cur, batch, safe) ==
    LET e == UAdd(cur, batch)
    IN  IF e > safe THEN safe ELSE e

\* end block of the batch that starts at cur
EndBlock(cur, batch, safe) ==
    LET e == USub(UAdd(cur, batch), 1)
    IN  IF e > safe THEN safe ELSE e

LoopScanIgnoresCtx ==
    /\ pc = "loop"
    /\ currentBlock <= safeHead
    /\ EndBlock(currentBlock, config.BatchSize, safeHead) <= MaxBlock
    /\ scanFrom' = currentBlock
    /\ scanTo' = EndBlock(currentBlock, config.BatchSize, safeHead)
    /\ pc' = "scan"
    /\ UNCHANGED <<config, filter, handlerSet, cursor, retErr, ctxDone,
                   currentBlock, head, safeHead, last, savedInRun, delivered>>
    /\ UNCHANGED <<poolVars, sinkVars>>

\* top of the catch-up loop: the context is live, scanRange(currentBlock,
\* endBlock) is called
LoopScan ==
    /\ pc = "loop"
    /\ currentBlock <= safeHead
    /\ ~ctxDone
    /\ EndBlock(currentBlock, config.BatchSize, safeHead) <= MaxBlock
    /\ scanFrom' = currentBlock
    /\ scanTo' = EndBlock(currentBlock, config.BatchSize, safeHead)
    /\ pc' = "scan"
    /\ UNCHANGED <<config, filter, handlerSet, cursor, retErr, ctxDone,
                   currentBlock, head, safeHead, last, savedInRun, delivered>>
    /\ UNCHANGED <<poolVars, sinkVars>>

\* ------------------------------------------------------------------------
\* scanRange
\* ------------------------------------------------------------------------
\* what the RPC client, the chain and the handler do during one scanRange:
\*   headerOk   HeaderByNumber succeeds
\*   blockLogs  the logs of the block (single-block range)
\*   blocks     the blocks of the range holding a matching log (longer range)
\*   filterOk   FilterLogs succeeds
\*   handlerOk  the handler returns nil
ScanInputs(from, to) ==
    { [headerOk |-> ho, blockLogs |-> bl, blocks |-> bs, filterOk |-> fo, handlerOk |-> hk] :
        ho \in BOOLEAN, fo \in BOOLEAN, hk \in BOOLEAN,
        bl \in IF from = to THEN SUBSET LogUniverse ELSE {{}},
        bs \in IF from = to THEN {{}}
               ELSE {lo..hi : lo \in from..to, hi \in from..to} }

ShouldCheckBloom(cfg, f, from, to) == cfg.UseBloom /\ ~IsHeavy(f) /\ to = from

\* blocks of the logs FilterLogs returns for [from, to]
FilterLogsResult(f, from, to, in) ==
    IF from = to
    THEN IF \E l \in in.blockLogs : LogMatches(f, l) THEN {from} ELSE {}
    ELSE in.blocks

ScanRangeNoSkip(cfg, f, hset, from, to, in) ==
    LET check == ShouldCheckBloom(cfg, f, from, to)
        hdr == IF check THEN 1 ELSE 0
        logs == FilterLogsResult(f, from, to, in)
        base == [err |-> FALSE, header |-> hdr, filterLogs |-> 0, handler |-> 0,
                 bloomMiss |-> check /\ in.headerOk /\ ~MatchesBloom(f, BloomOf(in.blockLogs)),
                 logs |-> {}]
    IN  IF check /\ ~in.headerOk THEN [base EXCEPT !.err = TRUE]
        ELSE IF ~in.filterOk THEN [base EXCEPT !.err = TRUE, !.filterLogs = 1]
        ELSE IF logs # {} /\ hset
        THEN [base EXCEPT !.err = ~in.handlerOk, !.filterLogs = 1, !.handler = 1, !.logs = logs]
        ELSE [base EXCEPT !.filterLogs = 1]

\* outcome of scanRange(from, to): its error, the calls it made (header,
\* filterLogs, handler), whether the header bloom missed the filter, and the
\* blocks of the logs it handed to the handler
ScanRange(cfg, f, hset, from, to, in) ==
    LET check == ShouldCheckBloom(cfg, f, from, to)
        hdr == IF check THEN 1 ELSE 0
        logs == FilterLogsResult(f, from, to, in)
        base == [err |-> FALSE, header |-> hdr, filterLogs |-> 0, handler |-> 0,
                 bloomMiss |-> FALSE, logs |-> {}]
    IN  IF check /\ ~in.headerOk THEN [base EXCEPT !.err = TRUE]
        ELSE IF check /\ ~MatchesBloom(f, BloomOf(in.blockLogs))
        THEN [base EXCEPT !.bloomMiss = TRUE]
        ELSE IF ~in.filterOk THEN [base EXCEPT !.err = TRUE, !.filterLogs = 1]
        ELSE IF logs # {} /\ hset
        THEN [base EXCEPT !.err = ~in.handlerOk, !.filterLogs = 1, !.handler = 1, !.logs = logs]
        ELSE [base EXCEPT !.filterLogs = 1]

\* the outcomes scanRange(from, to) can have, over everything its environment
\* can do
ScanOutcomes(cfg, f, hset, from, to) ==
    {ScanRange(cfg, f, hset, from, to, in) : in \in ScanInputs(from, to)}

SetMin(S) == CHOOSE x \in S : \A y \in S : x <= y

SetMax(S) == CHOOSE x \in S : \A y \in S : x >= y

\* the handler was invoked with logs of the blocks bs and returned ok:
\* highest block handed to the handler so far, and highest block handed to an
\* invocation that returned nil
Deliver(d, bs, ok) ==
    [max |-> Max(d.max, SetMax(bs)),
     maxOk |-> IF ok THEN Max(d.maxOk, SetMax(bs)) ELSE d.maxOk]

LastOf(r, from, save) ==
    [res |-> IF r.err THEN "fail" ELSE "ok", from |-> from, save |-> save,
     header |-> r.header, filterLogs |-> r.filterLogs, handler |-> r.handler,
     bloomMiss |-> r.bloomMiss, lo |-> IF r.handler = 1 THEN SetMin(r.logs) ELSE -1]

NextStartSame(to) == to

\* nextStart := endBlock + 1
NextStart(to) == UAdd(to, 1)

AfterScanAdvanceOnError(err, saveOk, cur, to, persisted, cancelled) ==
    IF err
    THEN [currentBlock |-> NextStart(to), cursor |-> persisted, save |-> "none",
          pc |-> IF cancelled THEN "done" ELSE "sleep"]
    ELSE [currentBlock |-> NextStart(to),
          cursor |-> IF saveOk THEN NextStart(to) ELSE persisted,
          save |-> IF saveOk THEN "ok" ELSE "fail", pc |-> "loop"]

AfterScanRetryOnSaveError(err, saveOk, cur, to, persisted, cancelled) ==
    IF err
    THEN [currentBlock |-> cur, cursor |-> persisted, save |-> "none",
          pc |-> IF cancelled THEN "done" ELSE "sleep"]
    ELSE [currentBlock |-> IF saveOk THEN NextStart(to) ELSE cur,
          cursor |-> IF saveOk THEN NextStart(to) ELSE persisted,
          save |-> IF saveOk THEN "ok" ELSE "fail", pc |-> "loop"]

AfterScanRescanLastBlock(err, saveOk, cur, to, persisted, cancelled) ==
    IF err
    THEN [currentBlock |-> cur, cursor |-> persisted, save |-> "none",
          pc |-> IF cancelled THEN "done" ELSE "sleep"]
    ELSE [currentBlock |-> IF to > cur THEN to ELSE NextStart(to),
          cursor |-> IF saveOk THEN NextStart(to) ELSE persisted,
          save |-> IF saveOk THEN "ok" ELSE "fail", pc |-> "loop"]

\* Start after scanRange(cur, to) returned (lines 107-125).  On an error: no
\* SaveCursor, currentBlock stays, 1s sleep (select with ctx.Done) and break.
\* On success: SaveCursor(nextStart), whose error is only logged, and
\* currentBlock = nextStart.
AfterScan(err, saveOk, cur, to, persisted, cancelled) ==
    IF err
    THEN [currentBlock |-> cur, cursor |-> persisted, save |-> "none",
          pc |-> IF cancelled THEN "done" ELSE "sleep"]
    ELSE [currentBlock |-> NextStart(to),
          cursor |-> IF saveOk THEN NextStart(to) ELSE persisted,
          save |-> IF saveOk THEN "ok" ELSE "fail", pc |-> "loop"]

\* scanRange returns an error
ScanFail ==
    /\ pc = "scan"
    /\ \E r \in ScanOutcomes(config, filter, handlerSet, scanFrom, scanTo) :
          LET a == AfterScan(TRUE, FALSE, currentBlock, scanTo, cursor, ctxDone)
          IN  /\ r.err
              /\ last' = LastOf(r, scanFrom, a.save)
              /\ delivered' = IF r.handler = 1 THEN Deliver(delivered, r.logs, FALSE)
                              ELSE delivered
              /\ currentBlock' = a.currentBlock
              /\ cursor' = a.cursor
              /\ pc' = a.pc
              /\ retErr' = IF a.pc = "done" THEN "Canceled" ELSE retErr
    /\ scanFrom' = 0
    /\ scanTo' = 0
    /\ head' = 0
    /\ safeHead' = 0
    /\ UNCHANGED <<config, filter, handlerSet, ctxDone, savedInRun>>
    /\ UNCHANGED <<poolVars, sinkVars>>

\* scanRange succeeds
ScanOk ==
    /\ pc = "scan"
    /\ \E r \in ScanOutcomes(config, filter, handlerSet, scanFrom, scanTo),
          saveOk \in BOOLEAN :
          LET a == AfterScan(FALSE, saveOk, currentBlock, scanTo, cursor, ctxDone)
          IN  /\ ~r.err
              /\ last' = LastOf(r, scanFrom, a.save)
              /\ delivered' = IF r.handler = 1 THEN Deliver(delivered, r.logs, TRUE)
                              ELSE delivered
              /\ currentBlock' = a.currentBlock
              /\ cursor' = a.cursor
              /\ savedInRun' = (savedInRun \/ a.save = "ok")
              /\ pc' = a.pc
    /\ scanFrom' = 0
    /\ scanTo' = 0
    /\ UNCHANGED <<config, filter, handlerSet, retErr, ctxDone, head, safeHead>>
    /\ UNCHANGED <<poolVars, sinkVars>>

\* failure sleep, case <-ctx.Done()
SleepCancelled ==
    /\ pc = "sleep"
    /\ ctxDone
    /\ pc' = "done"
    /\ retErr' = "Canceled"
    /\ UNCHANGED <<config, filter, handlerSet, cursor, ctxDone, currentBlock, head,
                   safeHead, scanFrom, scanTo, last, savedInRun, delivered>>
    /\ UNCHANGED <<poolVars, sinkVars>>

\* failure sleep, case <-time.After(1s), then break out of the catch-up loop
SleepTimer ==
    /\ pc = "sleep"
    /\ pc' = "select"
    /\ UNCHANGED <<config, filter, handlerSet, cursor, retErr, ctxDone,
                   currentBlock, head, safeHead, scanFrom, scanTo, last,
                   savedInRun, delivered>>
    /\ UNCHANGED <<poolVars, sinkVars>>

\* the steps of Scanner.Start
ScannerStep ==
    \/ DetermineStart
    \/ SelectDone
    \/ SelectTick
    \/ LoopExit
    \/ LoopCancelled
    \/ LoopScan
    \/ ScanFail
    \/ ScanOk
    \/ SleepCancelled
    \/ SleepTimer

Next ==
    \/ Cancel
    \/ DetermineStart
    \/ SelectDone
    \/ SelectTick
    \/ LoopExit
    \/ LoopCancelled
    \/ LoopScan
    \/ ScanFail
    \/ ScanOk
    \/ SleepCancelled
    \/ SleepTimer

Spec == Init /\ [][Next]_vars

\* ------------------------------------------------------------------------
\* The scan loop with the fairness its scheduling gives: Start keeps running
\* (every RPC call and every handler call returns), and a select whose
\* ctx.Done() case is ready eventually takes it (Go picks among the ready
\* cases of a select at random).
\* ------------------------------------------------------------------------
InitFair ==
    /\ Init
    /\ config.UseBloom = FALSE
    /\ filter = NewFilter
    /\ handlerSet = TRUE

SpecFair ==
    /\ InitFair
    /\ [][Next]_vars
    /\ WF_vars(ScannerStep)
    /\ WF_vars(SelectDone)

\* ------------------------------------------------------------------------
\* Catching up with a chain whose head does not move: every BlockNumber call
\* of the scanner succeeds and returns the head the client has cached
\* (globalHeight), the context is never cancelled, ticks keep arriving and
\* a scanRange call that is repeated eventually succeeds.
\* ------------------------------------------------------------------------
InitCatchUp ==
    /\ config \in ConfigSet
    /\ config.UseBloom = FALSE
    /\ filter = NewFilter
    /\ handlerSet = TRUE
    /\ cursor \in {0, 2, 5}
    /\ ScanInitVars
    /\ nodes = << >>
    /\ globalHeight \in 1..MaxHead
    /\ globalHeight >= config.ReorgSafe
    /\ calls = << >>
    /\ sync = NoSync
    /\ probe = NoProbe
    /\ SinkIdle

\* determineStartBlock, reading the fixed head when it reads one
CatchUpStart ==
    /\ DetermineStart
    /\ ReadsHead(config, cursor) => head' = globalHeight

\* a tick: BlockNumber returns the fixed head
CatchUpTick ==
    /\ SelectTick
    /\ IF SafeHead(globalHeight, config.ReorgSafe) < currentBlock
       THEN pc' = "select"
       ELSE pc' = "loop" /\ head' = globalHeight

CatchUpNext ==
    \/ CatchUpStart
    \/ CatchUpTick
    \/ LoopExit
    \/ LoopScan
    \/ ScanFail
    \/ ScanOk
    \/ SleepTimer

SpecCatchUp ==
    /\ InitCatchUp
    /\ [][CatchUpNext]_vars
    /\ WF_vars(CatchUpNext)
    /\ SF_vars(ScanOk)

\* ------------------------------------------------------------------------
\* determineStartBlock over a wide set of inputs
\* ------------------------------------------------------------------------
InitStart ==
    /\ config \in { New([ForceStart |-> f, StartBlock |-> sb, Rewind |-> rw,
                          CursorRewind |-> cr, BatchSize |-> 1, ReorgSafe |-> 0,
                          UseBloom |-> FALSE]) :
                       f \in BOOLEAN, sb \in 0..MaxParam, rw \in 0..MaxParam,
                       cr \in 0..MaxParam }
    /\ filter = NewFilter
    /\ handlerSet = TRUE
    /\ cursor \in 0..MaxParam
    /\ ScanInitCommon

StartNext ==
    \/ DetermineStart

SpecStart == InitStart /\ [][StartNext]_vars

\* ========================================================================
\* The RPC node pool (pkg/rpc): Node and MultiClient
\* ========================================================================
\* Bounds
\* largest pool
MaxNodes == 4
\* execute calls a caller makes one after the other
MaxCalls == 1

\* callers of MultiClient.execute
Callers == {1, 2}

\* priorities given to the nodes
PrioritySet == {1, 5, 8, 10}

\* times (ms) a call of the underlying client takes
DurSet == {0, 50}

\* a node as NewNodeWithClient builds it.  mode is the behaviour of its
\* endpoint: "up" answers every call, "down" fails every call, "flaky" may do
\* either; chain is the block height it reports and dur the time (ms) a call
\* of it takes.  expired: more than 30s have passed since lastErrorTime (kept
\* FALSE while the breaker flag is not set, where it is not read).
NewNodeWithClient(prio, rate, conc, mode, chain, dur) ==
    [Priority |-> prio, RateLimit |-> rate, MaxConcurrent |-> conc, mode |-> mode,
     chain |-> chain, dur |-> dur,
     errorCount |-> 0, latency |-> 0, latestBlock |-> 0,
     tokens |-> rate, sem |-> 0, circuitBroken |-> FALSE, expired |-> FALSE]

\* ---- Node.Score ----
Score(n, globalMaxHeight) ==
    LET base == n.Priority * 100 - (n.latency \div 10) - n.errorCount * 500
    IN  IF globalMaxHeight > 0 /\ n.latestBlock < globalMaxHeight
        THEN LET lag == globalMaxHeight - n.latestBlock
             IN  IF lag > 100 THEN -10000
                 ELSE IF lag > 20 THEN base - lag * 200
                 ELSE IF lag > 5 THEN base - lag * 100
                 ELSE IF lag > 0 THEN base - lag * 20
                 ELSE base
        ELSE base

\* ---- circuit breaker ----
BreakerThreshold == 5

IsCircuitBrokenNoTimeout(n) == n.circuitBroken

IsCircuitBroken(n) == n.circuitBroken /\ ~n.expired

TripCircuitBreaker(n) == [n EXCEPT !.circuitBroken = TRUE, !.expired = FALSE]

ResetCircuitBreaker(n) == [n EXCEPT !.circuitBroken = FALSE, !.expired = FALSE]

RecordMetricTripLate(n, isErr, d) ==
    LET n1 == [n EXCEPT !.latency = IF n.latency = 0 THEN d
                                    ELSE (n.latency * 8 + d * 2) \div 10]
    IN  IF isErr
        THEN LET n2 == [n1 EXCEPT !.errorCount = @ + 1, !.expired = FALSE]
             IN  IF n2.errorCount > BreakerThreshold THEN TripCircuitBreaker(n2) ELSE n2
        ELSE LET n2 == [n1 EXCEPT !.errorCount = IF @ > 0 THEN @ - 1 ELSE @]
             IN  IF n2.errorCount = 0 THEN ResetCircuitBreaker(n2) ELSE n2

\* ---- Node.RecordMetric: one call took d ms and failed (isErr) or not ----
RecordMetric(n, isErr, d) ==
    LET n1 == [n EXCEPT !.latency = IF n.latency = 0 THEN d
                                    ELSE (n.latency * 8 + d * 2) \div 10]
    IN  IF isErr
        THEN LET n2 == [n1 EXCEPT !.errorCount = @ + 1, !.expired = FALSE]
             IN  IF n2.errorCount >= BreakerThreshold THEN TripCircuitBreaker(n2) ELSE n2
        ELSE LET n2 == [n1 EXCEPT !.errorCount = IF @ > 0 THEN @ - 1 ELSE @]
             IN  IF n2.errorCount = 0 THEN ResetCircuitBreaker(n2) ELSE n2

\* ---- Node.UpdateHeight ----
UpdateHeight(n, h) == IF h > n.latestBlock THEN [n EXCEPT !.latestBlock = h] ELSE n

MeetsHeightRequirement(n, requiredHeight) == n.latestBlock >= requiredHeight

\* ---- Node.TryAcquire ----
TryAcquireRateFirst(n, cancelled, ctxFirst) ==
    IF n.RateLimit > 0 /\ n.tokens = 0 THEN [err |-> "RateLimited", node |-> n]
    ELSE LET n1 == IF n.RateLimit > 0 THEN [n EXCEPT !.tokens = @ - 1] ELSE n
         IN  IF IsCircuitBroken(n) THEN [err |-> "CircuitBroken", node |-> n1]
             ELSE IF n.MaxConcurrent = 0 THEN [err |-> "", node |-> n1]
             ELSE IF n.sem < n.MaxConcurrent
             THEN IF cancelled /\ ctxFirst THEN [err |-> "Canceled", node |-> n1]
                  ELSE [err |-> "", node |-> [n1 EXCEPT !.sem = @ + 1]]
             ELSE IF cancelled THEN [err |-> "Canceled", node |-> n1]
             ELSE [err |-> "Busy", node |-> n1]

TryAcquireUncapped(n, cancelled, ctxFirst) ==
    IF IsCircuitBroken(n) THEN [err |-> "CircuitBroken", node |-> n]
    ELSE IF n.RateLimit > 0 /\ n.tokens = 0 THEN [err |-> "RateLimited", node |-> n]
    ELSE [err |-> "", node |-> [n EXCEPT !.tokens = IF n.RateLimit > 0 THEN @ - 1 ELSE @,
                                         !.sem = IF n.MaxConcurrent > 0 THEN @ + 1 ELSE @]]

\* cancelled: ctx is done; ctxFirst: the select takes ctx.Done() when the
\* semaphore send is ready too
TryAcquire(n, cancelled, ctxFirst) ==
    IF IsCircuitBroken(n) THEN [err |-> "CircuitBroken", node |-> n]
    ELSE IF n.RateLimit > 0 /\ n.tokens = 0 THEN [err |-> "RateLimited", node |-> n]
    ELSE LET n1 == IF n.RateLimit > 0 THEN [n EXCEPT !.tokens = @ - 1] ELSE n
         IN  IF n.MaxConcurrent = 0 THEN [err |-> "", node |-> n1]
             ELSE IF n.sem < n.MaxConcurrent
             THEN IF cancelled /\ ctxFirst THEN [err |-> "Canceled", node |-> n1]
                  ELSE [err |-> "", node |-> [n1 EXCEPT !.sem = @ + 1]]
             ELSE IF cancelled THEN [err |-> "Canceled", node |-> n1]
             ELSE [err |-> "Busy", node |-> n1]

\* ---- Node.Release ----
Release(n) == IF n.MaxConcurrent > 0 THEN [n EXCEPT !.sem = @ - 1] ELSE n

\* the deferred Release calls of execute, run when it returns
RECURSIVE ReleaseAll(_, _)
ReleaseAll(ns, held) ==
    IF held = << >> THEN ns
    ELSE ReleaseAll([ns EXCEPT ![Head(held)] = Release(ns[Head(held)])], Tail(held))

\* ---- pickAvailableNodeWithHeight ----
CandidatesUnsorted(ns, globalH) == [k \in 1..Len(ns) |-> k]

\* candidates sorted by score, descending; sort.Slice on a pool of this size
\* is an insertion sort, so nodes of equal score keep their order
Candidates(ns, globalH) ==
    LET rank(i) == Cardinality({j \in 1..Len(ns) :
                        \/ Score(ns[j], globalH) > Score(ns[i], globalH)
                        \/ (Score(ns[j], globalH) = Score(ns[i], globalH) /\ j < i)})
    IN  [k \in 1..Len(ns) |-> CHOOSE i \in 1..Len(ns) : rank(i) = k - 1]

\* the non-blocking loop over the candidates from position k on
RECURSIVE TryCandidates(_, _, _, _, _, _)
TryCandidates(ns, order, k, requiredHeight, cancelled, ctxWins) ==
    IF k > Len(order) THEN [kind |-> "none", nodes |-> ns, node |-> 0]
    ELSE LET id == order[k]
         IN  IF requiredHeight > 0 /\ ~MeetsHeightRequirement(ns[id], requiredHeight)
             THEN TryCandidates(ns, order, k + 1, requiredHeight, cancelled, ctxWins)
             ELSE LET t == TryAcquire(ns[id], cancelled, id \in ctxWins)
                      ns1 == [ns EXCEPT ![id] = t.node]
                  IN  IF t.err = "" THEN [kind |-> "acquired", nodes |-> ns1, node |-> id]
                      ELSE TryCandidates(ns1, order, k + 1, requiredHeight, cancelled, ctxWins)

\* pickAvailableNodeWithHeight up to the point where it returns or blocks in
\* waitForNode: kind is "acquired", "error" (err), or "wait" (on node)
PickAvailableNodeWithHeight(ns, globalH, requiredHeight, cancelled, ctxWins) ==
    LET order == Candidates(ns, globalH)
        t == TryCandidates(ns, order, 1, requiredHeight, cancelled, ctxWins)
        best == order[1]
    IN  IF Len(ns) = 0 THEN [kind |-> "error", err |-> "NoAvailableNodes", nodes |-> ns, node |-> 0]
        ELSE IF t.kind = "acquired" THEN [kind |-> "acquired", err |-> "", nodes |-> t.nodes, node |-> t.node]
        ELSE IF IsCircuitBroken(t.nodes[best])
        THEN [kind |-> "error", err |-> "NoAvailableNodes", nodes |-> t.nodes, node |-> 0]
        ELSE IF requiredHeight > 0 /\ ~MeetsHeightRequirement(t.nodes[best], requiredHeight)
        THEN [kind |-> "error", err |-> "NoNodeMeetsHeight", nodes |-> t.nodes, node |-> 0]
        ELSE [kind |-> "wait", err |-> "", nodes |-> t.nodes, node |-> best]

\* ---- MultiClient.execute ----
AttemptsUncapped(n) == n

\* attempts := len(mc.nodes), capped at 3
Attempts(n) == IF n > 3 THEN 3 ELSE n

IdleCall == [pc |-> "idle", op |-> "", i |-> 0, node |-> 0, held |-> << >>, lastErr |-> 0,
             trace |-> << >>, ret |-> "", retAttempt |-> 0, cancelled |-> FALSE,
             made |-> 0, active |-> FALSE]

\* execute returns r (retAttempt: the attempt whose error is returned); the
\* deferred Release calls run
Return(c, r, attempt) ==
    [c EXCEPT !.pc = "ret", !.ret = r, !.retAttempt = attempt, !.i = 0, !.node = 0,
              !.held = << >>, !.lastErr = 0]

\* a caller enters execute
ExecBegin(c) ==
    /\ calls[c].pc \in {"idle", "ret"}
    /\ calls[c].active
    /\ calls[c].made < MaxCalls
    /\ \E op \in {"BlockNumber", "ChainID"} :
          \* MultiClient.BlockNumber answers from the cached height when it has one
          /\ op = "BlockNumber" => globalHeight = 0
          /\ calls' = [calls EXCEPT ![c] = [IdleCall EXCEPT !.pc = "pick", !.op = op,
                                                            !.made = calls[c].made + 1,
                                                            !.active = TRUE]]
    /\ UNCHANGED <<nodes, globalHeight, sync>>
    /\ UNCHANGED <<probe, scanVars, sinkVars>>

\* the context of the call in progress is cancelled
ExecCancel(c) ==
    /\ calls[c].pc \notin {"idle", "ret"}
    /\ ~calls[c].cancelled
    /\ calls' = [calls EXCEPT ![c].cancelled = TRUE]
    /\ UNCHANGED <<nodes, globalHeight, sync>>
    /\ UNCHANGED <<probe, scanVars, sinkVars>>

AcquiredNoDefer(c, n) == [c EXCEPT !.pc = "op", !.node = n]

\* the node n has been acquired for the attempt: defer Release, then op runs
Acquired(c, n) == [c EXCEPT !.pc = "op", !.node = n, !.held = Append(@, n)]

\* top of the loop of execute: pickAvailableNode
ExecPick(c) ==
    /\ calls[c].pc = "pick"
    /\ \E ctxWins \in IF calls[c].cancelled
                     THEN SUBSET {n \in 1..Len(nodes) : nodes[n].MaxConcurrent > 0}
                     ELSE {{}} :
          LET p == PickAvailableNodeWithHeight(nodes, globalHeight, 0, calls[c].cancelled, ctxWins)
          IN  IF p.kind = "acquired" THEN
                  /\ nodes' = p.nodes
                  /\ calls' = [calls EXCEPT ![c] = Acquired(@, p.node)]
              ELSE IF p.kind = "error" THEN
                  /\ nodes' = ReleaseAll(p.nodes, calls[c].held)
                  /\ calls' = [calls EXCEPT ![c] = Return(@, p.err, 0)]
              ELSE
                  /\ nodes' = p.nodes
                  /\ calls' = [calls EXCEPT ![c].pc = IF p.nodes[p.node].RateLimit > 0
                                                      THEN "waitRate" ELSE "waitSem",
                                            ![c].node = p.node]
    /\ UNCHANGED <<globalHeight, sync>>
    /\ UNCHANGED <<probe, scanVars, sinkVars>>

\* waitForNode, limiter.Wait(ctx): error when ctx is done, else a token is
\* taken once there is one
ExecWaitRate(c) ==
    /\ calls[c].pc = "waitRate"
    /\ LET n == calls[c].node
       IN  IF calls[c].cancelled THEN
               /\ nodes' = ReleaseAll(nodes, calls[c].held)
               /\ calls' = [calls EXCEPT ![c] = Return(@, "Canceled", 0)]
           ELSE
               /\ nodes[n].tokens > 0
               /\ nodes' = [nodes EXCEPT ![n].tokens = @ - 1]
               /\ calls' = [calls EXCEPT ![c] = IF nodes[n].MaxConcurrent > 0
                                                THEN [@ EXCEPT !.pc = "waitSem"]
                                                ELSE Acquired(@, n)]
    /\ UNCHANGED <<globalHeight, sync>>
    /\ UNCHANGED <<probe, scanVars, sinkVars>>

\* waitForNode, select on the semaphore: a permit is taken
ExecWaitSem(c) ==
    /\ calls[c].pc = "waitSem"
    /\ LET n == calls[c].node
       IN  /\ nodes[n].MaxConcurrent = 0 \/ nodes[n].sem < nodes[n].MaxConcurrent
           /\ nodes' = IF nodes[n].MaxConcurrent > 0 THEN [nodes EXCEPT ![n].sem = @ + 1]
                       ELSE nodes
           /\ calls' = [calls EXCEPT ![c] = Acquired(@, n)]
    /\ UNCHANGED <<globalHeight, sync>>
    /\ UNCHANGED <<probe, scanVars, sinkVars>>

\* waitForNode, select on the semaphore: case <-ctx.Done()
ExecWaitSemCancelled(c) ==
    /\ calls[c].pc = "waitSem"
    /\ calls[c].cancelled
    /\ nodes[calls[c].node].MaxConcurrent > 0
    /\ nodes' = ReleaseAll(nodes, calls[c].held)
    /\ calls' = [calls EXCEPT ![c] = Return(@, "Canceled", 0)]
    /\ UNCHANGED <<globalHeight, sync>>
    /\ UNCHANGED <<probe, scanVars, sinkVars>>

\* results op can have on a node: nil, an RPC error, or the context's error
OpResults(n, cancelled) ==
    (IF n.mode \in {"up", "flaky"} THEN {"ok"} ELSE {})
        \cup (IF n.mode \in {"down", "flaky"} THEN {"err"} ELSE {})
        \cup (IF cancelled THEN {"canceled"} ELSE {})

AfterOpRetryCanceled(c, res, attempts) ==
    LET i == c.i + 1
        c1 == [c EXCEPT !.trace = Append(@, res)]
    IN  IF res = "ok" THEN Return(c1, "nil", 0)
        ELSE IF i < attempts THEN [c1 EXCEPT !.pc = "pick", !.i = i, !.node = 0, !.lastErr = i]
        ELSE Return(c1, IF res = "canceled" THEN "Canceled" ELSE "err", i)

\* execute after op returned res in attempt c.i + 1 (lines 128-143)
AfterOp(c, res, attempts) ==
    LET i == c.i + 1
        c1 == [c EXCEPT !.trace = Append(@, res)]
    IN  IF res = "ok" THEN Return(c1, "nil", 0)
        ELSE IF res = "canceled" THEN Return(c1, "Canceled", i)
        ELSE IF i < attempts THEN [c1 EXCEPT !.pc = "pick", !.i = i, !.node = 0, !.lastErr = i]
        ELSE Return(c1, "err", i)

\* op(node) runs: the proxied call records its metric, then execute returns
\* or goes on to the next attempt
ExecOp(c) ==
    /\ calls[c].pc = "op"
    /\ \E res \in OpResults(nodes[calls[c].node], calls[c].cancelled) :
          LET n == calls[c].node
              n1 == RecordMetric(nodes[n], res # "ok", nodes[n].dur)
              n2 == IF calls[c].op = "BlockNumber" /\ res = "ok"
                    THEN UpdateHeight(n1, n1.chain) ELSE n1
              ns1 == [nodes EXCEPT ![n] = n2]
              c1 == AfterOp(calls[c], res, Attempts(Len(nodes)))
          IN  /\ calls' = [calls EXCEPT ![c] = c1]
              /\ nodes' = IF c1.pc = "ret" THEN ReleaseAll(ns1, calls[c].held) ELSE ns1
    /\ UNCHANGED <<globalHeight, sync>>
    /\ UNCHANGED <<probe, scanVars, sinkVars>>

\* ---- environment of the pool ----
\* the token bucket of node n gains a token
Refill(n) ==
    /\ n \in 1..Len(nodes)
    /\ nodes[n].tokens < nodes[n].RateLimit
    /\ nodes' = [nodes EXCEPT ![n].tokens = @ + 1]
    /\ UNCHANGED <<globalHeight, calls, sync>>
    /\ UNCHANGED <<probe, scanVars, sinkVars>>

\* more than 30s pass since the last error of node n
BreakerTimeout(n) ==
    /\ n \in 1..Len(nodes)
    /\ nodes[n].circuitBroken
    /\ ~nodes[n].expired
    /\ nodes' = [nodes EXCEPT ![n].expired = TRUE]
    /\ UNCHANGED <<globalHeight, calls, sync>>
    /\ UNCHANGED <<probe, scanVars, sinkVars>>

\* ---- MultiClient.syncNodes (the rounds of startBackgroundSync) ----
\* rounds of syncNodes
MaxSyncs == 2

\* a round starts: maxH is 0 and there is one goroutine per node
SyncStart ==
    /\ sync.pc = "idle"
    /\ sync.rounds < MaxSyncs
    /\ sync' = [NoSync EXCEPT !.pc = "run", !.pending = 1..Len(nodes),
                              !.rounds = sync.rounds + 1]
    /\ UNCHANGED <<nodes, globalHeight, calls>>
    /\ UNCHANGED <<probe, scanVars, sinkVars>>

\* the goroutine of node n up to its comparison: node.BlockNumber (not rate
\* limited), then, when the call succeeded, the atomic load of maxH and the
\* test h > maxH.  A goroutine that passes the test still has its store to do
\* (storing); answered keeps the heights returned in this round.
SyncPoll(n) ==
    /\ sync.pc = "run"
    /\ n \in sync.pending
    /\ \E res \in OpResults(nodes[n], FALSE) :
          LET n1 == RecordMetric(nodes[n], res # "ok", nodes[n].dur)
              n2 == IF res = "ok" THEN UpdateHeight(n1, n1.chain) ELSE n1
              h  == n2.chain
          IN  /\ nodes' = [nodes EXCEPT ![n] = n2]
              /\ sync' = [sync EXCEPT
                            !.pending = @ \ {n},
                            !.storing = IF res = "ok" /\ h > sync.maxH
                                        THEN @ \cup {<<n, h>>} ELSE @,
                            !.answered = IF res = "ok" THEN @ \cup {h} ELSE @]
    /\ UNCHANGED <<globalHeight, calls>>
    /\ UNCHANGED <<probe, scanVars, sinkVars>>

\* the atomic store of a goroutine that passed the test: maxH becomes its
\* height, whatever maxH has become since the load
SyncStore(n) ==
    /\ sync.pc = "run"
    /\ \E st \in sync.storing :
          /\ st[1] = n
          /\ sync' = [sync EXCEPT !.storing = @ \ {st}, !.maxH = st[2]]
    /\ UNCHANGED <<nodes, globalHeight, calls>>
    /\ UNCHANGED <<probe, scanVars, sinkVars>>

\* wg.Wait() returns when every goroutine is done: the global height is
\* updated when maxH > 0
SyncFinish ==
    /\ sync.pc = "run"
    /\ sync.pending = {}
    /\ sync.storing = {}
    /\ globalHeight' = IF sync.maxH > 0 THEN sync.maxH ELSE globalHeight
    /\ sync' = [NoSync EXCEPT !.rounds = sync.rounds]
    /\ UNCHANGED <<nodes, calls>>
    /\ UNCHANGED <<probe, scanVars, sinkVars>>

\* a node that has failed k calls in a row
RECURSIVE AfterErrors(_, _)
AfterErrors(n, k) == IF k = 0 THEN n ELSE AfterErrors(RecordMetric(n, TRUE, 0), k - 1)

\* ---- pools ----
\* height the endpoints report
ChainHeight == 100

\* two nodes, the one of higher priority down and the other up
PriorityPairs == {pp \in PrioritySet \X PrioritySet : pp[1] > pp[2]}

FailoverPools ==
    { <<NewNodeWithClient(pp[1], 0, m1, "down", ChainHeight, d),
        NewNodeWithClient(pp[2], 0, 0, "up", ChainHeight, 0)>> :
        pp \in PriorityPairs, m1 \in {0, 1}, d \in DurSet }
    \cup
    { <<NewNodeWithClient(pp[2], 0, 0, "up", ChainHeight, 0),
        NewNodeWithClient(pp[1], 0, 0, "down", ChainHeight, 0)>> :
        pp \in PriorityPairs }

\* pools of one or two flaky nodes, all without limits or the first with a
\* rate limit and all with a concurrency limit; and a pool of a node that is
\* down, a flaky node and a node that is up
FlakyPools ==
    { [k \in 1..n |-> NewNodeWithClient(10 - k, IF k = 1 THEN lim ELSE 0, lim, "flaky",
                                        ChainHeight - 3 * (k - 1), 0)] :
        n \in 1..2, lim \in {0, 1} }
    \cup
    { <<NewNodeWithClient(10, 0, 0, "down", ChainHeight, 0),
        NewNodeWithClient(9, 0, 0, "flaky", ChainHeight, 0),
        NewNodeWithClient(8, 0, 0, "up", ChainHeight, 0)>> }

\* a node whose token bucket has just been emptied
Drained(n) == [n EXCEPT !.tokens = 0]

InitPoolCommon ==
    /\ config = New([ForceStart |-> FALSE, StartBlock |-> 0, Rewind |-> 0, CursorRewind |-> 0,
                     BatchSize |-> 0, ReorgSafe |-> 0, UseBloom |-> FALSE])
    /\ filter = NewFilter
    /\ handlerSet = FALSE
    /\ cursor = 0
    /\ ScanInitVars

InitPool ==
    /\ InitPoolCommon
    \* besides the failover and flaky pools: pools of 1..MaxNodes nodes of
    \* descending priority that are all down, and pools that have been in use
    \* (a node that is down and has failed four calls in a row, a flaky node
    \* with limits whose token has been taken, a preferred node that is down and
    \* admits one request at a time next to a rate-limited node whose token has
    \* been taken)
    /\ nodes \in FailoverPools \cup FlakyPools
          \cup { [k \in 1..n |-> NewNodeWithClient(10 - k, 0, 0, "down", ChainHeight, 0)] :
                   n \in 1..MaxNodes }
          \cup { <<AfterErrors(NewNodeWithClient(10, 0, 0, "down", ChainHeight, 0),
                               BreakerThreshold - 1)>>,
                 <<Drained(NewNodeWithClient(10, 1, 1, "flaky", ChainHeight, 0))>>,
                 <<NewNodeWithClient(10, 0, 1, "down", ChainHeight, 0),
                   Drained(NewNodeWithClient(1, 1, 0, "up", ChainHeight, 0))>> }
    /\ globalHeight = 0
    /\ calls = [c \in Callers |-> [IdleCall EXCEPT !.active = (c = 1)]]
    /\ sync = NoSync
    /\ probe = NoProbe
    /\ SinkIdle

PoolNext ==
    \/ \E c \in Callers : ExecBegin(c)
    \/ \E c \in Callers : ExecCancel(c)
    \/ \E c \in Callers : ExecPick(c)
    \/ \E c \in Callers : ExecWaitRate(c)
    \/ \E c \in Callers : ExecWaitSem(c)
    \/ \E c \in Callers : ExecWaitSemCancelled(c)
    \/ \E c \in Callers : ExecOp(c)
    \/ \E n \in 1..MaxNodes : Refill(n)
    \/ \E n \in 1..MaxNodes : BreakerTimeout(n)
    \/ SyncStart
    \/ \E n \in 1..MaxNodes : SyncPoll(n)
    \/ \E n \in 1..MaxNodes : SyncStore(n)
    \/ SyncFinish

SpecPool == InitPool /\ [][PoolNext]_vars

\* ========================================================================
\* One Node used directly by several goroutines (as the pool and the tests
\* of pkg/rpc do): TryAcquire, waitForNode, Release, RecordMetric
\* ========================================================================
\* goroutines using the node
NodeUsers == {1, 2, 3}

\* largest consecutive error count reached
MaxErrors == 6

\* goroutine c calls node.TryAcquire(ctx) on the node; cancelled: ctx is done,
\* ctxFirst: the select takes ctx.Done() when the semaphore send is ready too
NodeTryAcquire(c, cancelled, ctxFirst) ==
    /\ calls[c].pc \in {"idle", "ret"}
    /\ ctxFirst => cancelled
    /\ LET t == TryAcquire(nodes[1], cancelled, ctxFirst)
       IN  /\ nodes' = [nodes EXCEPT ![1] = t.node]
           /\ calls' = [calls EXCEPT ![c] = IF t.err = "" THEN Acquired(IdleCall, 1)
                                            ELSE IdleCall]
           /\ probe' = [probe EXCEPT !.err = t.err, !.flag = nodes[1].circuitBroken]
    /\ UNCHANGED <<globalHeight, sync>>
    /\ UNCHANGED <<scanVars, sinkVars>>

\* goroutine c calls waitForNode(ctx, node)
NodeWaitForNode(c) ==
    /\ calls[c].pc \in {"idle", "ret"}
    /\ calls' = [calls EXCEPT ![c] = [IdleCall EXCEPT !.pc = IF nodes[1].RateLimit > 0
                                                              THEN "waitRate" ELSE "waitSem",
                                                      !.node = 1]]
    /\ UNCHANGED <<nodes, globalHeight, sync, probe>>
    /\ UNCHANGED <<scanVars, sinkVars>>

\* goroutine c, which holds the node, calls node.Release()
NodeRelease(c) ==
    /\ calls[c].pc = "op"
    /\ nodes' = [nodes EXCEPT ![1] = Release(@)]
    /\ calls' = [calls EXCEPT ![c] = IdleCall]
    /\ UNCHANGED <<globalHeight, sync, probe>>
    /\ UNCHANGED <<scanVars, sinkVars>>

\* a call of the node's client ends and node.RecordMetric(start, err) runs
NodeRecordMetric(isErr) ==
    /\ isErr => nodes[1].errorCount < MaxErrors
    /\ nodes' = [nodes EXCEPT ![1] = RecordMetric(@, isErr, @.dur)]
    /\ probe' = [probe EXCEPT !.run = IF isErr /\ @ >= 0 THEN @ + 1 ELSE -1]
    /\ UNCHANGED <<globalHeight, calls, sync>>
    /\ UNCHANGED <<scanVars, sinkVars>>

InitNode ==
    /\ InitPoolCommon
    \* a node without limits, with a concurrency limit, or with a rate limit
    \* and a concurrency limit
    /\ nodes \in { <<NewNodeWithClient(10, lim[1], lim[2], "flaky", ChainHeight, 0)>> :
                    lim \in {<<0, 0>>, <<0, 1>>, <<1, 2>>} }
    /\ globalHeight = 0
    /\ calls = [c \in NodeUsers |-> IdleCall]
    /\ sync = NoSync
    /\ probe = NoProbe
    /\ SinkIdle

NodeNext ==
    \/ \E c \in NodeUsers, cancelled \in BOOLEAN, ctxFirst \in BOOLEAN :
          NodeTryAcquire(c, cancelled, ctxFirst)
    \/ \E c \in NodeUsers : NodeWaitForNode(c)
    \/ \E c \in NodeUsers : ExecCancel(c)
    \/ \E c \in NodeUsers : ExecWaitRate(c)
    \/ \E c \in NodeUsers : ExecWaitSem(c)
    \/ \E c \in NodeUsers : ExecWaitSemCancelled(c)
    \/ \E c \in NodeUsers : NodeRelease(c)
    \/ \E isErr \in BOOLEAN : NodeRecordMetric(isErr)
    \/ Refill(1)
    \/ BreakerTimeout(1)

SpecNode == InitNode /\ [][NodeNext]_vars

\* ========================================================================
\* Node.Score applied to pairs of nodes of equal priority and latency
\* ========================================================================
\* lags around the thresholds of Score
LagSet == {0, 1, 5, 6, 20, 21, 60, 100, 101, 102}

\* global height the lags are measured from
ScoreGlobalHeight == 200

\* largest consecutive error count of the pairs
MaxScoreErrors == 2

\* a node with the given priority, latency, consecutive errors and height
ScoredNode(prio, lat, errs, h) ==
    [NewNodeWithClient(prio, 0, 0, "up", h, lat) EXCEPT
        !.latency = lat, !.errorCount = errs, !.latestBlock = h]

InitScore ==
    /\ InitPoolCommon
    /\ \E prio \in {1, 10}, lat \in DurSet :
       \E ea \in 0..MaxScoreErrors, eb \in 0..MaxScoreErrors, la \in LagSet, lb \in LagSet :
          nodes = <<ScoredNode(prio, lat, ea, ScoreGlobalHeight - la),
                    ScoredNode(prio, lat, eb, ScoreGlobalHeight - lb)>>
    /\ globalHeight = ScoreGlobalHeight
    /\ calls = << >>
    /\ sync = NoSync
    /\ probe = NoProbe
    /\ SinkIdle

\* the two nodes are scored against the global height
ScoreNodes ==
    /\ probe = NoProbe
    /\ probe' = [scores |-> [i \in 1..2 |-> Score(nodes[i], globalHeight)]]
    /\ UNCHANGED <<nodes, globalHeight, calls, sync>>
    /\ UNCHANGED <<scanVars, sinkVars>>

ScoreNext ==
    \/ ScoreNodes

SpecScore == InitScore /\ [][ScoreNext]_vars

\* ========================================================================
\* pickAvailableNodeWithHeight called directly on pools in use
\* ========================================================================
\* a node all of whose permits are held by other goroutines
Busy(n) == [n EXCEPT !.sem = n.MaxConcurrent]

\* the states a node of the pool can be in: breaker open or closed, rate
\* bucket full or empty, permit free or taken, height current or behind
NodeStates(prio) ==
    LET n0 == UpdateHeight(NewNodeWithClient(prio, 1, 1, "up", ChainHeight, 0), ChainHeight)
    IN  { (IF lagging THEN [n EXCEPT !.latestBlock = ChainHeight - 60] ELSE n) :
            lagging \in BOOLEAN,
            n \in { (IF busy THEN Busy(m) ELSE m) :
                      busy \in BOOLEAN,
                      m \in { (IF drained THEN Drained(k) ELSE k) :
                                drained \in BOOLEAN,
                                k \in {n0, AfterErrors(n0, BreakerThreshold)} } } }

InitPick ==
    /\ InitPoolCommon
    \* pools of three nodes of priorities 100, 10 and 9
    /\ nodes \in { <<a, b, c>> : a \in NodeStates(100), b \in NodeStates(10),
                                c \in NodeStates(9) }
    /\ globalHeight = ChainHeight
    /\ calls = [c \in {1} |-> IdleCall]
    /\ sync = NoSync
    /\ probe = NoProbe
    /\ SinkIdle

\* goroutine c calls pickAvailableNodeWithHeight(ctx, requiredHeight) and gets
\* a node or an error, or goes on to wait for the best node in waitForNode
PickCall(c, requiredHeight, cancelled) ==
    /\ calls[c].pc = "idle"
    /\ probe = NoProbe
    /\ \E ctxWins \in IF cancelled
                     THEN SUBSET {n \in 1..Len(nodes) : nodes[n].MaxConcurrent > 0}
                     ELSE {{}} :
          LET p == PickAvailableNodeWithHeight(nodes, globalHeight, requiredHeight,
                                               cancelled, ctxWins)
              c0 == [IdleCall EXCEPT !.cancelled = cancelled]
          IN  /\ nodes' = p.nodes
              /\ calls' = [calls EXCEPT ![c] =
                              IF p.kind = "acquired" THEN Acquired(c0, p.node)
                              ELSE IF p.kind = "error" THEN Return(c0, p.err, 0)
                              ELSE [c0 EXCEPT !.pc = IF p.nodes[p.node].RateLimit > 0
                                                     THEN "waitRate" ELSE "waitSem",
                                              !.node = p.node]]
              /\ probe' = [req |-> requiredHeight, cancelled |-> cancelled, kind |-> p.kind,
                           err |-> p.err, node |-> p.node, before |-> nodes]
    /\ UNCHANGED <<globalHeight, sync>>
    /\ UNCHANGED <<scanVars, sinkVars>>

\* the bucket of node n, which goroutine c waits for, gains a token
AwaitedRefill(c, n) ==
    /\ calls[c].node = n
    /\ Refill(n)

\* another goroutine, which holds a permit of node n, releases it while
\* goroutine c waits for the node
PeerRelease(c, n) ==
    /\ calls[c].node = n
    /\ nodes[n].MaxConcurrent > 0
    /\ nodes[n].sem > Cardinality({u \in DOMAIN calls : calls[u].pc = "op" /\ calls[u].node = n})
    /\ nodes' = [nodes EXCEPT ![n] = Release(@)]
    /\ UNCHANGED <<globalHeight, calls, sync, probe>>
    /\ UNCHANGED <<scanVars, sinkVars>>

PickNext ==
    \/ \E h \in {0, ChainHeight}, cancelled \in BOOLEAN : PickCall(1, h, cancelled)
    \/ ExecCancel(1)
    \/ ExecWaitRate(1)
    \/ ExecWaitSem(1)
    \/ ExecWaitSemCancelled(1)
    \/ \E n \in 1..3 : AwaitedRefill(1, n)
    \/ \E n \in 1..3 : PeerRelease(1, n)

SpecPick == InitPick /\ [][PickNext]_vars

\* ========================================================================
\* webhook.Client (internal/webhook/client.go): NewClient, Send with
\* retries and backoff, attemptSend
\* ========================================================================
\* width of the model's time.Duration, a signed integer (int64 in the
\* program); durations are in seconds
DurBits == 6

\* largest MaxAttempts configured
MaxTries == 3

\* largest time.Now().Unix() of the run
MaxNow == 1

\* ---- NewClient: the configuration with its defaults ----
NewClient(cfg) ==
    [cfg EXCEPT !.MaxAttempts = IF @ <= 0 THEN 1 ELSE @,
                !.InitialBackoff = IF @ <= 0 THEN 1 ELSE @,
                !.MaxBackoff = IF @ <= 0 THEN 10 ELSE @]

\* json.Marshal(Payload{Timestamp, Logs}): the bytes of the body
Marshal(timestamp, logs) == <<timestamp>> \o logs

RECURSIVE Digest(_, _)
Digest(acc, msg) ==
    IF msg = << >> THEN acc
    ELSE Digest((acc * 31 + Head(msg) + 7) % 251, Tail(msg))

HmacSHA256(key, msg) == Digest(Digest(17, key), msg)

\* hex.EncodeToString of the one-byte digest
HexDigits == <<"0", "1", "2", "3", "4", "5", "6", "7", "8", "9", "a", "b", "c", "d", "e", "f">>

EncodeToString(b) == <<HexDigits[(b \div 16) + 1], HexDigits[(b % 16) + 1]>>

\* ---- attemptSend up to httpClient.Do: the request sent ----
NewRequestUnsigned(secret, body) ==
    [body |-> body, signed |-> FALSE, signature |-> << >>]

NewRequest(secret, body) ==
    IF Len(secret) > 0
    THEN [body |-> body, signed |-> TRUE,
          signature |-> EncodeToString(HmacSHA256(secret, body))]
    ELSE [body |-> body, signed |-> FALSE, signature |-> << >>]

Responses ==
    {[err |-> TRUE, status |-> 0, sent |-> TRUE]}
    \cup {[err |-> FALSE, status |-> st, sent |-> TRUE] : st \in {199, 200, 299, 300, 500}}

\* attemptSend returns nil
Is2xx(resp) == ~resp.err /\ ~(resp.status < 200 \/ resp.status >= 300)

\* ---- Client.Send ----
IdleHook(cfg, secret) ==
    [pc |-> "idle", cfg |-> cfg, secret |-> secret, logs |-> << >>, body |-> << >>,
     i |-> 0, backoff |-> 0, timer |-> FALSE, cancelled |-> FALSE, now |-> 0,
     waits |-> << >>, requests |-> << >>, results |-> << >>, ret |-> ""]

HookReturn(h, err) == [h EXCEPT !.pc = "ret", !.ret = err]

\* Send is called: nothing is sent for an empty batch; the body is marshalled
\* once, with the time of the call
HookSend(logs) ==
    /\ hook.pc = "idle"
    /\ hook' = IF Len(logs) = 0 THEN HookReturn([hook EXCEPT !.logs = logs], "nil")
               ELSE [hook EXCEPT !.pc = "check", !.logs = logs,
                                 !.body = Marshal(hook.now, logs),
                                 !.backoff = hook.cfg.InitialBackoff, !.i = 0]
    /\ UNCHANGED <<out, fan>>
    /\ UNCHANGED <<scanVars, poolVars>>

\* the ctx of the call is cancelled
HookCancel ==
    /\ hook.pc # "none"
    /\ hook.pc # "ret"
    /\ ~hook.cancelled
    /\ hook' = [hook EXCEPT !.cancelled = TRUE]
    /\ UNCHANGED <<out, fan>>
    /\ UNCHANGED <<scanVars, poolVars>>

HookCheckNoCtx ==
    /\ hook.pc = "check"
    /\ hook' = IF hook.i > 0
               THEN [hook EXCEPT !.pc = "wait", !.timer = FALSE,
                                 !.waits = Append(@, hook.backoff)]
               ELSE [hook EXCEPT !.pc = "attempt"]
    /\ UNCHANGED <<out, fan>>
    /\ UNCHANGED <<scanVars, poolVars>>

\* the top of the loop: the test of ctx.Done(), then for i > 0 the timer
\* of the backoff wait is created
HookCheck ==
    /\ hook.pc = "check"
    /\ hook' = IF hook.cancelled THEN HookReturn(hook, "Canceled")
               ELSE IF hook.i > 0
               THEN [hook EXCEPT !.pc = "wait", !.timer = FALSE,
                                 !.waits = Append(@, hook.backoff)]
               ELSE [hook EXCEPT !.pc = "attempt"]
    /\ UNCHANGED <<out, fan>>
    /\ UNCHANGED <<scanVars, poolVars>>

\* the timer of the wait expires; the clock may have moved to the next second
HookTimer ==
    /\ hook.pc = "wait"
    /\ ~hook.timer
    /\ \E tick \in {0, 1} :
          /\ hook.now + tick <= MaxNow
          /\ hook' = [hook EXCEPT !.timer = TRUE, !.now = @ + tick]
    /\ UNCHANGED <<out, fan>>
    /\ UNCHANGED <<scanVars, poolVars>>

\* backoff *= 2 in the width of time.Duration, capped at MaxBackoff
Double(backoff, maxBackoff) ==
    LET b == ((backoff * 2 + 2^(DurBits - 1)) % 2^DurBits) - 2^(DurBits - 1)
    IN  IF b > maxBackoff THEN maxBackoff ELSE b

\* the select of the wait: one of the ready cases is taken (ctxFirst: the
\* ctx.Done() case)
HookWait(ctxFirst) ==
    /\ hook.pc = "wait"
    /\ IF ctxFirst THEN hook.cancelled ELSE hook.timer
    /\ hook' = IF ctxFirst THEN HookReturn(hook, "Canceled")
               ELSE [hook EXCEPT !.pc = "attempt",
                                 !.backoff = Double(hook.backoff, hook.cfg.MaxBackoff)]
    /\ UNCHANGED <<out, fan>>
    /\ UNCHANGED <<scanVars, poolVars>>

AfterAttemptNoStop(h, resp) ==
    LET h1 == [h EXCEPT !.results = Append(@, resp), !.i = @ + 1]
    IN  IF h1.i < h.cfg.MaxAttempts THEN [h1 EXCEPT !.pc = "check"]
        ELSE IF Is2xx(resp) THEN HookReturn(h1, "nil")
        ELSE HookReturn(h1, "Failed")

\* attemptSend has returned: Send returns nil on success, goes to the next
\* iteration on failure and returns the wrapped last error after the last one
AfterAttempt(h, resp) ==
    LET h1 == [h EXCEPT !.results = Append(@, resp)]
    IN  IF Is2xx(resp) THEN HookReturn(h1, "nil")
        ELSE IF h.i + 1 < h.cfg.MaxAttempts THEN [h1 EXCEPT !.pc = "check", !.i = @ + 1]
        ELSE HookReturn([h1 EXCEPT !.i = @ + 1], "Failed")

\* attemptSend builds the request and calls httpClient.Do; with a ctx that
\* is already cancelled net/http returns the ctx error without sending
HookDo ==
    /\ hook.pc = "attempt"
    /\ hook' = IF hook.cancelled
               THEN AfterAttempt(hook, [err |-> TRUE, status |-> 0, sent |-> FALSE])
               ELSE [hook EXCEPT !.pc = "inflight",
                                 !.requests = Append(@, NewRequest(hook.secret, hook.body))]
    /\ UNCHANGED <<out, fan>>
    /\ UNCHANGED <<scanVars, poolVars>>

\* httpClient.Do returns
HookRespond(resp) ==
    /\ hook.pc = "inflight"
    /\ hook' = AfterAttempt(hook, resp)
    /\ UNCHANGED <<out, fan>>
    /\ UNCHANGED <<scanVars, poolVars>>

\* ---- the clients and batches of the model ----
InitHook ==
    /\ InitPoolCommon
    /\ nodes = << >>
    /\ globalHeight = 0
    /\ calls = << >>
    /\ sync = NoSync
    /\ probe = NoProbe
    /\ out = NoSink
    /\ fan = NoSink
    /\ \E cfg \in [MaxAttempts : 0..MaxTries, InitialBackoff : {0, 2, 12, 20},
                    MaxBackoff : {0, 3, 20}],
          secret \in {<< >>, <<3>>} :
          hook = IdleHook(NewClient(cfg), secret)

HookNext ==
    \/ \E logs \in {<< >>, <<1>>, <<1, 2>>} : HookSend(logs)
    \/ HookCancel
    \/ HookCheck
    \/ HookTimer
    \/ \E ctxFirst \in BOOLEAN : HookWait(ctxFirst)
    \/ HookDo
    \/ \E resp \in Responses : HookRespond(resp)

SpecHook == InitHook /\ [][HookNext]_vars

\* ------------------------------------------------------------------------
\* The client of a webhook sink.  NewWebhookOutput receives the retry
\* settings of the configuration (main.go:162 passes max_attempts and the two
\* backoffs); the webhook.Config it builds sets URL, Secret and MaxAttempts
\* only, so the two durations reach NewClient as zero values.
\* ------------------------------------------------------------------------
WebhookClient(maxAttempts, initialBackoff, maxBackoff) ==
    NewClient([MaxAttempts |-> maxAttempts, InitialBackoff |-> 0, MaxBackoff |-> 0])

\* a synchronous sink built from a retry configuration, which out records
InitSink ==
    /\ InitPoolCommon
    /\ nodes = << >>
    /\ globalHeight = 0
    /\ calls = << >>
    /\ sync = NoSync
    /\ probe = NoProbe
    /\ fan = NoSink
    /\ \E retry \in [MaxAttempts : 0..MaxTries, InitialBackoff : {1, 2, 5},
                      MaxBackoff : {5, 10, 20}],
          secret \in {<< >>, <<3>>} :
          /\ out = [pc |-> "sync", retry |-> retry]
          /\ hook = IdleHook(WebhookClient(retry.MaxAttempts, retry.InitialBackoff,
                                           retry.MaxBackoff), secret)

SpecSink == InitSink /\ [][HookNext]_vars

\* ========================================================================
\* sink.WebhookOutput in async mode: NewWebhookOutput, Send, Close, worker
\* ========================================================================
\* goroutines calling Send and Close
OutUsers == {1, 2, 3}

\* calls of Send and Close in a run
MaxOutCalls == 4

IdleOutCall ==
    [pc |-> "idle", kind |-> "", batch |-> 0, ret |-> "", cancelled |-> FALSE,
     afterClose |-> FALSE]

\* ---- NewWebhookOutput(async = true): the queue and the workers started ----
\* (enq: the batches in the order they were put on the queue; started: the
\* batches in the order a worker took them and called client.Send)
NewWebhookOutput(bufferSize, workers) ==
    LET size == IF bufferSize <= 0 THEN 1000 ELSE bufferSize
        n    == IF workers <= 0 THEN 1 ELSE workers
    IN  [pc |-> "async", cap |-> size, queue |-> << >>, closed |-> FALSE, closes |-> 0,
         panic |-> FALSE, mu |-> 0, serial |-> 0,
         calls |-> [c \in OutUsers |-> IdleOutCall],
         workers |-> [w \in 1..n |-> [pc |-> "recv", batch |-> 0]],
         accepted |-> {}, completed |-> {}, enq |-> << >>, started |-> << >>]

\* goroutine c calls Send with a new batch, or Close
OutCall(c, kind) ==
    /\ out.pc = "async"
    /\ out.calls[c].pc \in {"idle", "ret"}
    /\ out.serial < MaxOutCalls
    /\ out' = [out EXCEPT !.serial = @ + 1,
                          !.calls[c] = [IdleOutCall EXCEPT !.pc = "lock", !.kind = kind,
                                                          !.batch = out.serial + 1,
                                                          !.afterClose = out.closed]]
    /\ UNCHANGED <<hook, fan>>
    /\ UNCHANGED <<scanVars, poolVars>>

\* the ctx of a Send call is cancelled; Send looks at its ctx in the select
\* only, so a cancellation before the select is one at the select
OutCancel(c) ==
    /\ out.pc = "async"
    /\ out.calls[c].kind = "Send"
    /\ out.calls[c].pc = "select"
    /\ ~out.calls[c].cancelled
    /\ out' = [out EXCEPT !.calls[c].cancelled = TRUE]
    /\ UNCHANGED <<hook, fan>>
    /\ UNCHANGED <<scanVars, poolVars>>

CloseLockedNoFlag(o) == [o EXCEPT !.closed = TRUE, !.closes = @ + 1]

\* Close under closedMu: the queue is closed unless the flag is set
CloseLocked(o) ==
    IF ~o.closed THEN [o EXCEPT !.closed = TRUE, !.closes = @ + 1] ELSE o

SendLockedNoFlag(o, c) == [o EXCEPT !.mu = c, !.calls[c].pc = "select"]

\* Send under closedMu: the closed error when the flag is set (the deferred
\* Unlock runs), else the select is reached with the mutex held
SendLocked(o, c) ==
    IF o.closed THEN [o EXCEPT !.calls[c].pc = "ret", !.calls[c].ret = "Closed"]
    ELSE [o EXCEPT !.mu = c, !.calls[c].pc = "select"]

\* goroutine c gets closedMu
OutLock(c) ==
    /\ out.pc = "async"
    /\ out.calls[c].pc = "lock"
    /\ out.mu = 0
    /\ out' = IF out.calls[c].kind = "Send" THEN SendLocked(out, c)
              ELSE [CloseLocked(out) EXCEPT !.calls[c].pc = "wait"]
    /\ UNCHANGED <<hook, fan>>
    /\ UNCHANGED <<scanVars, poolVars>>

\* the select of Send: the batch is put on the queue when there is room
\* (a send on a closed channel panics), or the ctx case is taken (ctxFirst);
\* the deferred Unlock runs
OutEnqueue(c, ctxFirst) ==
    /\ out.pc = "async"
    /\ out.calls[c].pc = "select"
    /\ IF ctxFirst THEN out.calls[c].cancelled
       ELSE out.closes > 0 \/ Len(out.queue) < out.cap
    /\ out' = IF ctxFirst
              THEN [out EXCEPT !.mu = 0, !.calls[c].pc = "ret", !.calls[c].ret = "Canceled",
                               !.calls[c].cancelled = FALSE]
              ELSE IF out.closes > 0
              THEN [out EXCEPT !.mu = 0, !.panic = TRUE, !.calls[c].pc = "ret",
                               !.calls[c].ret = "panic", !.calls[c].cancelled = FALSE]
              ELSE [out EXCEPT !.mu = 0, !.queue = Append(@, out.calls[c].batch),
                               !.enq = Append(@, out.calls[c].batch),
                               !.accepted = @ \cup {out.calls[c].batch},
                               !.calls[c].pc = "ret", !.calls[c].ret = "nil",
                               !.calls[c].cancelled = FALSE]
    /\ UNCHANGED <<hook, fan>>
    /\ UNCHANGED <<scanVars, poolVars>>

WorkerRecvNewest(w) ==
    /\ out.pc = "async"
    /\ w \in DOMAIN out.workers
    /\ out.workers[w].pc = "recv"
    /\ Len(out.queue) > 0 \/ out.closes > 0
    /\ out' = IF Len(out.queue) > 0
              THEN [out EXCEPT !.queue = SubSeq(@, 1, Len(@) - 1),
                               !.started = Append(@, out.queue[Len(out.queue)]),
                               !.workers[w] = [pc |-> "send",
                                               batch |-> out.queue[Len(out.queue)]]]
              ELSE [out EXCEPT !.workers[w] = [pc |-> "done", batch |-> 0]]
    /\ UNCHANGED <<hook, fan>>
    /\ UNCHANGED <<scanVars, poolVars>>

\* a worker at its range over the queue: it takes the next batch and calls
\* client.Send, or leaves the loop when the queue is closed and empty
WorkerRecv(w) ==
    /\ out.pc = "async"
    /\ w \in DOMAIN out.workers
    /\ out.workers[w].pc = "recv"
    /\ Len(out.queue) > 0 \/ out.closes > 0
    /\ out' = IF Len(out.queue) > 0
              THEN [out EXCEPT !.queue = Tail(@),
                               !.started = Append(@, Head(out.queue)),
                               !.workers[w] = [pc |-> "send", batch |-> Head(out.queue)]]
              ELSE [out EXCEPT !.workers[w] = [pc |-> "done", batch |-> 0]]
    /\ UNCHANGED <<hook, fan>>
    /\ UNCHANGED <<scanVars, poolVars>>

\* client.Send of a worker returns, with an error or not, after the time the
\* endpoint took
WorkerSent(w) ==
    /\ out.pc = "async"
    /\ w \in DOMAIN out.workers
    /\ out.workers[w].pc = "send"
    /\ out' = [out EXCEPT !.completed = @ \cup {out.workers[w].batch},
                          !.workers[w] = [pc |-> "recv", batch |-> 0]]
    /\ UNCHANGED <<hook, fan>>
    /\ UNCHANGED <<scanVars, poolVars>>

WaitDoneNoWait(o) == TRUE

\* wg.Wait() of Close returns: every worker has left its loop
WaitDone(o) == \A w \in DOMAIN o.workers : o.workers[w].pc = "done"

OutCloseReturn(c) ==
    /\ out.pc = "async"
    /\ out.calls[c].pc = "wait"
    /\ WaitDone(out)
    /\ out' = [out EXCEPT !.calls[c].pc = "ret", !.calls[c].ret = "nil"]
    /\ UNCHANGED <<hook, fan>>
    /\ UNCHANGED <<scanVars, poolVars>>

\* ---- the sinks of the model ----
InitOut ==
    /\ InitPoolCommon
    /\ nodes = << >>
    /\ globalHeight = 0
    /\ calls = << >>
    /\ sync = NoSync
    /\ probe = NoProbe
    /\ hook = NoSink
    /\ fan = NoSink
    /\ \E bufferSize \in {0, 1}, workers \in {0, 2} :
          out = NewWebhookOutput(bufferSize, workers)

OutNext ==
    \/ \E c \in OutUsers, kind \in {"Send", "Close"} : OutCall(c, kind)
    \/ \E c \in OutUsers : OutCancel(c)
    \/ \E c \in OutUsers : OutLock(c)
    \/ \E c \in OutUsers, ctxFirst \in BOOLEAN : OutEnqueue(c, ctxFirst)
    \/ \E w \in 1..2 : WorkerRecv(w)
    \/ \E w \in 1..2 : WorkerSent(w)
    \/ \E c \in OutUsers : OutCloseReturn(c)

SpecOut == InitOut /\ [][OutNext]_vars

\* ========================================================================
\* scanner-cli: the handler set in Run (decode each log, fan out to the
\* sinks) and decoder.ABIWrapper.Decode
\* ========================================================================
\* sinks configured at most
MaxSinks == 2

\* logs in a batch at most
MaxLogs == 2

\* the events of the parsed ABI, by signature (Topics[0]): name and number of
\* indexed arguments
ABIEvents ==
    (1 :> [Name |-> "Transfer", indexed |-> 2]) @@ (2 :> [Name |-> "Approval", indexed |-> 1])

\* the signatures of the filter's Topics[0], for which main registers the
\* decoder; 3 is filtered for but is not an event of the ABI
DecoderKeys == {1, 2, 3}

\* ---- ABIWrapper.Decode ----
Decode(log) ==
    IF Len(log.topics) = 0 THEN [err |-> "NoTopics", Name |-> ""]
    ELSE IF log.topics[1] \notin DOMAIN ABIEvents THEN [err |-> "UnknownSignature", Name |-> ""]
    ELSE LET event == ABIEvents[log.topics[1]]
         IN  IF log.data = "bad" THEN [err |-> "DecodeFailed", Name |-> ""]
             ELSE IF Len(log.topics) - 1 # event.indexed
             THEN [err |-> "TopicCountMismatch", Name |-> ""]
             ELSE [err |-> "", Name |-> event.Name]

\* ---- the handler: the DecodedLog made of one log ----
DecodeOne(l) ==
    LET dl == [Log |-> l, decoded |-> FALSE, EventName |-> ""]
    IN  IF Len(l.topics) > 0 /\ l.topics[1] \in DecoderKeys /\ Decode(l).err = ""
        THEN [dl EXCEPT !.decoded = TRUE, !.EventName = Decode(l).Name]
        ELSE dl

IdleFan(n) ==
    [pc |-> "idle", sinks |-> 1..n, logs |-> << >>, decodedLogs |-> << >>,
     state |-> [s \in 1..n |-> "idle"], got |-> [s \in 1..n |-> << >>],
     sends |-> [s \in 1..n |-> 0], ret |-> ""]

\* the handler is called with the logs of a range: its first loop appends
\* one DecodedLog per log, then it starts one goroutine per sink (one call of
\* the handler is followed)
FanHandle(logs) ==
    /\ fan.pc = "idle"
    /\ fan' = [IdleFan(Cardinality(fan.sinks)) EXCEPT
                  !.pc = "wait", !.logs = logs,
                  !.decodedLogs = [j \in 1..Len(logs) |-> DecodeOne(logs[j])],
                  !.state = [s \in fan.sinks |-> "started"]]
    /\ UNCHANGED <<hook, out>>
    /\ UNCHANGED <<scanVars, poolVars>>

\* the goroutine of sink s: o.Send(ctx, decodedLogs) returns nil or an error,
\* which is discarded
FanSinkSend(s, failed) ==
    /\ fan.pc = "wait"
    /\ s \in fan.sinks
    /\ fan.state[s] = "started"
    /\ fan' = [fan EXCEPT !.state[s] = IF failed THEN "err" ELSE "nil",
                          !.got[s] = fan.decodedLogs,
                          !.sends[s] = @ + 1]
    /\ UNCHANGED <<hook, out>>
    /\ UNCHANGED <<scanVars, poolVars>>

HandlerResultFirstError(f) ==
    IF \E s \in f.sinks : f.state[s] = "err" THEN "err" ELSE "nil"

\* the handler returns nil
HandlerResult(f) == "nil"

\* wg.Wait() returns when every goroutine is done, and the handler returns
FanReturn ==
    /\ fan.pc = "wait"
    /\ \A s \in fan.sinks : fan.state[s] \in {"nil", "err"}
    /\ fan' = [fan EXCEPT !.pc = "ret", !.ret = HandlerResult(fan)]
    /\ UNCHANGED <<hook, out>>
    /\ UNCHANGED <<scanVars, poolVars>>

\* ---- the logs and sinks of the model ----
\* batches of logs: topics (the first is the signature) and data that is
\* empty, unpacks or does not unpack
LogLists ==
    UNION { [1..n -> [topics : {<< >>, <<1, 7, 8>>, <<1, 7>>, <<2, 7>>, <<3, 7>>, <<9>>},
                      data : {"", "good", "bad"}]] : n \in 0..MaxLogs }

InitFan ==
    /\ InitPoolCommon
    /\ nodes = << >>
    /\ globalHeight = 0
    /\ calls = << >>
    /\ sync = NoSync
    /\ probe = NoProbe
    /\ hook = NoSink
    /\ out = NoSink
    /\ \E n \in 0..MaxSinks : fan = IdleFan(n)

FanNext ==
    \/ \E logs \in LogLists : FanHandle(logs)
    \/ \E s \in 1..MaxSinks, failed \in BOOLEAN : FanSinkSend(s, failed)
    \/ FanReturn

SpecFan == InitFan /\ [][FanNext]_vars

\* ========================================================================
\* Claims
\* ========================================================================

C2_FailedRangeRetried ==
    /\ [][ (pc = "scan" /\ pc' # "scan" /\ last'.res = "fail") =>
              /\ last'.save = "none"
              /\ cursor' = cursor
              /\ currentBlock' = scanFrom
              /\ pc' \in {"sleep", "done"} ]_vars
    /\ []((pc = "scan" /\ last.res = "fail") => scanFrom = last.from)

C2_Witness ==
    /\ pc = "scan"
    /\ last.res = "fail"
    /\ scanFrom = last.from
    /\ scanFrom > 0

\* C3: every range [from, to] passed to scanRange satisfies
\* to <= head - reorgSafe for the head read on that tick; no block is scanned
\* when head < reorgSafe and no block above head is scanned.
C3_ReorgWindow ==
    pc = "scan" => (scanTo + config.ReorgSafe <= head /\ scanTo <= head)

\* C4 as stated: no handler invocation receives a log whose block is less
\* than or equal to a block delivered by an earlier invocation.
C4_StrictlyAscending ==
    [][ (pc = "scan" /\ pc' # "scan" /\ last'.handler = 1) =>
            last'.lo > delivered.max ]_vars

\* C4 amended: every handler invocation receives only logs of blocks greater
\* than every block delivered to an earlier invocation that returned nil (a
\* range whose handler returned an error is delivered again on the retry).
C4_AscendingAfterSuccess ==
    [][ (pc = "scan" /\ pc' # "scan" /\ last'.handler = 1) =>
            last'.lo > delivered.maxOk ]_vars

C4_Witness ==
    /\ last.handler = 1
    /\ last.res = "fail"
    /\ delivered.maxOk >= 0
    /\ last.lo > delivered.maxOk

\* C5: determineStartBlock returns startBlock if forceStart and
\* startBlock > 0; else max(0, saved - cursorRewind) if saved > 0; else
\* startBlock if startBlock > 0; else max(0, head - startRewind).
C5_StartBlock ==
    pc = "select" =>
        currentBlock =
            IF config.ForceStart /\ config.StartBlock > 0 THEN config.StartBlock
            ELSE IF cursor > 0 THEN Max(0, cursor - config.CursorRewind)
            ELSE IF config.StartBlock > 0 THEN config.StartBlock
            ELSE Max(0, head - config.Rewind)

C5_Witness ==
    /\ pc = "select"
    /\ ~config.ForceStart
    /\ cursor > 0
    /\ config.CursorRewind > cursor
    /\ currentBlock = 0

\* C6: when SaveCursor fails after a successful scanRange(from, to), the loop
\* goes on: the in-memory cursor advances to to + 1, the next range starts
\* there, and the persisted cursor keeps its value.
C6_SaveFailureContinues ==
    /\ [][ (pc = "scan" /\ pc' # "scan" /\ last'.save = "fail") =>
              /\ currentBlock' = scanTo + 1
              /\ pc' = "loop"
              /\ cursor' = cursor ]_vars
    /\ [](pc = "scan" => scanFrom = currentBlock)

C6_Witness ==
    /\ pc = "scan"
    /\ last.save = "fail"
    /\ scanFrom = currentBlock
    /\ cursor < currentBlock

\* C7: once the context is cancelled the loop starts no scanRange call, and
\* Start eventually returns the context's error.
C7_Cancellation ==
    /\ [][ ctxDone => ~(pc # "scan" /\ pc' = "scan") ]_vars
    /\ ((ctxDone /\ pc \notin {"start", "done"}) ~> (pc = "done" /\ retErr = "Canceled"))

C7_Witness ==
    /\ pc = "done"
    /\ retErr = "Canceled"
    /\ ctxDone
    /\ last.res = "ok"

\* C8: with useBloom, a non-heavy filter and a single-block range [N, N]
\* whose header bloom does not match the filter, scanRange calls
\* HeaderByNumber once, neither FilterLogs nor the handler, returns nil, and
\* the loop advances the cursor to N + 1.
C8_BloomSkip ==
    [][ (pc = "scan" /\ pc' # "scan" /\ config.UseBloom /\ ~IsHeavy(filter)
            /\ scanFrom = scanTo /\ last'.bloomMiss) =>
            /\ last'.header = 1
            /\ last'.filterLogs = 0
            /\ last'.handler = 0
            /\ last'.res = "ok"
            /\ delivered' = delivered
            /\ currentBlock' = scanFrom + 1 ]_vars

C8_Witness ==
    /\ pc = "loop"
    /\ last.bloomMiss
    /\ last.res = "ok"
    /\ last.header = 1
    /\ last.filterLogs = 0
    /\ currentBlock = last.from + 1


\* ------------------------------------------------------------------------
\* C9: in a pool of two nodes where the node of higher priority fails every
\* call and the other node answers every call, a request that goes through
\* execute and is not cancelled returns success, whatever the two priorities.
C9_Failover ==
    \A c \in Callers :
        ( /\ Len(nodes) = 2
          /\ \E i, j \in 1..2 :
                /\ nodes[i].mode = "down"
                /\ nodes[j].mode = "up"
                /\ nodes[i].Priority > nodes[j].Priority
          /\ calls[c].pc = "ret"
          /\ ~calls[c].cancelled )
        => calls[c].ret = "nil"

\* ------------------------------------------------------------------------
\* C10: execute invokes op at most min(len(nodes), 3) times per call; no
\* attempt follows an attempt whose op succeeded, and the call then returns
\* success; when every attempt has failed with an error other than a
\* cancellation, the call returns the error of the last attempt.
C10_ExecuteAttempts ==
    \A c \in Callers :
        LET t == calls[c].trace
            n == Len(t)
        IN  /\ n <= Min(Len(nodes), 3)
            /\ \A k \in 1..(n - 1) : t[k] = "err"
            /\ (calls[c].pc = "ret" /\ n > 0 /\ t[n] = "ok") => calls[c].ret = "nil"
            /\ (calls[c].pc = "ret" /\ calls[c].ret = "nil") => (n > 0 /\ t[n] = "ok")
            /\ (calls[c].pc = "ret" /\ n = Min(Len(nodes), 3) /\ \A k \in 1..n : t[k] = "err")
                   => (calls[c].ret = "err" /\ calls[c].retAttempt = n)

\* a call on a pool of more than three nodes has returned the error of its
\* third attempt
C10_Witness ==
    \E c \in Callers :
        /\ Len(nodes) > 3
        /\ calls[c].pc = "ret"
        /\ Len(calls[c].trace) = 3
        /\ calls[c].ret = "err"
        /\ calls[c].retAttempt = 3

\* ------------------------------------------------------------------------
\* C11: when op returns the context's error (Canceled or DeadlineExceeded),
\* execute returns that error at once: the attempt is the last of the call,
\* whatever number of attempts remains, and its error is the one returned.
C11_CancelNoRetry ==
    \A c \in Callers :
        \A k \in 1..Len(calls[c].trace) :
            calls[c].trace[k] = "canceled"
                => /\ k = Len(calls[c].trace)
                   /\ calls[c].pc = "ret"
                   /\ calls[c].ret = "Canceled"
                   /\ calls[c].retAttempt = k

\* the first attempt of a call on a pool of several nodes was cancelled and
\* the call has returned
C11_Witness ==
    \E c \in Callers :
        /\ Len(nodes) >= 2
        /\ calls[c].pc = "ret"
        /\ calls[c].trace = <<"canceled">>
        /\ calls[c].ret = "Canceled"

\* ------------------------------------------------------------------------
\* C12: Node.TryAcquire never blocks and checks in a fixed order: an open
\* breaker gives CircuitBroken and changes nothing; else an empty rate bucket
\* gives RateLimited and takes no permit; else the semaphore is tried: ok
\* when a permit is taken, the context error when the semaphore is full and
\* ctx is cancelled, Busy otherwise.
C12_TryAcquireOrder ==
    /\ [](\A c \in NodeUsers :
             calls[c].pc \in {"idle", "ret"} => ENABLED NodeTryAcquire(c, FALSE, FALSE))
    /\ [][\A c \in NodeUsers, cancelled \in BOOLEAN, ctxFirst \in BOOLEAN :
             NodeTryAcquire(c, cancelled, ctxFirst) =>
                LET n == nodes[1]
                    n2 == nodes'[1]
                    e == probe'.err
                    open == n.circuitBroken /\ ~n.expired
                    empty == n.RateLimit > 0 /\ n.tokens = 0
                    full == n.MaxConcurrent > 0 /\ n.sem = n.MaxConcurrent
                    taken == n.MaxConcurrent = 0 \/ n2.sem = n.sem + 1
                IN  /\ open => (e = "CircuitBroken" /\ n2 = n)
                    /\ (~open /\ empty) => (e = "RateLimited" /\ n2 = n)
                    /\ (~open /\ ~empty) =>
                          e = IF taken THEN ""
                              ELSE IF full /\ cancelled THEN "Canceled"
                              ELSE "Busy"]_vars

\* C12 as the code has it: with a cancelled ctx the select may take the ctx
\* case although a permit is free, so the context error is returned whenever
\* no permit was taken and ctx is cancelled; Busy is returned exactly when
\* the semaphore is full and ctx is not cancelled, and a free permit is always
\* taken when ctx is not cancelled.
C12_TryAcquireOrderCtx ==
    /\ [](\A c \in NodeUsers :
             calls[c].pc \in {"idle", "ret"} => ENABLED NodeTryAcquire(c, FALSE, FALSE))
    /\ [][\A c \in NodeUsers, cancelled \in BOOLEAN, ctxFirst \in BOOLEAN :
             NodeTryAcquire(c, cancelled, ctxFirst) =>
                LET n == nodes[1]
                    n2 == nodes'[1]
                    e == probe'.err
                    open == n.circuitBroken /\ ~n.expired
                    empty == n.RateLimit > 0 /\ n.tokens = 0
                    full == n.MaxConcurrent > 0 /\ n.sem = n.MaxConcurrent
                    taken == n.MaxConcurrent = 0 \/ n2.sem = n.sem + 1
                IN  /\ open => (e = "CircuitBroken" /\ n2 = n)
                    /\ (~open /\ empty) => (e = "RateLimited" /\ n2 = n)
                    /\ (~open /\ ~empty) =>
                          /\ e = IF taken THEN ""
                                 ELSE IF cancelled THEN "Canceled"
                                 ELSE "Busy"
                          /\ full => ~taken
                          /\ (~full /\ ~cancelled) => taken]_vars

\* a TryAcquire call found the breaker open on a node whose rate bucket is
\* still full
C12_Witness ==
    /\ probe.err = "CircuitBroken"
    /\ nodes[1].circuitBroken /\ ~nodes[1].expired
    /\ nodes[1].RateLimit > 0
    /\ nodes[1].tokens = nodes[1].RateLimit

\* ------------------------------------------------------------------------
\* C13: for a node with MaxConcurrent = m > 0 the permits acquired through
\* TryAcquire or waitForNode and not yet released never number more than m,
\* under every interleaving; a TryAcquire made while m permits are out
\* returns Busy, and one made while fewer are out (as after a Release, which
\* gives one permit back) succeeds.  The TryAcquire calls meant are those
\* that reach the semaphore with a live ctx (breaker closed, a rate token
\* left).
C13_ConcurrencyCap ==
    /\ [](nodes[1].MaxConcurrent > 0 =>
             LET held == Cardinality({c \in NodeUsers : calls[c].pc = "op"})
             IN  held <= nodes[1].MaxConcurrent /\ nodes[1].sem = held)
    /\ [][\A c \in NodeUsers :
             LET n == nodes[1]
                 held == Cardinality({u \in NodeUsers : calls[u].pc = "op"})
             IN  /\ (NodeRelease(c) /\ n.MaxConcurrent > 0) => nodes'[1].sem = n.sem - 1
                 /\ ( /\ NodeTryAcquire(c, FALSE, FALSE)
                      /\ n.MaxConcurrent > 0
                      /\ ~(n.circuitBroken /\ ~n.expired)
                      /\ ~(n.RateLimit > 0 /\ n.tokens = 0) )
                    => IF held = n.MaxConcurrent
                       THEN probe'.err = "Busy" /\ calls'[c].pc # "op"
                       ELSE probe'.err = "" /\ calls'[c].pc = "op"]_vars

\* two goroutines hold the two permits of a node and a third was told Busy
C13_Witness ==
    /\ nodes[1].MaxConcurrent = 2
    /\ Cardinality({c \in NodeUsers : calls[c].pc = "op"}) = 2
    /\ probe.err = "Busy"

\* ------------------------------------------------------------------------
\* C14: in every state reached through RecordMetric calls a consecutive error
\* count of 5 or more implies that the circuitBroken flag is set; a node on
\* which nothing but errors were recorded since it was built has the flag
\* clear after up to 4 of them and set from the 5th on.
C14_BreakerOpens ==
    /\ nodes[1].errorCount >= 5 => nodes[1].circuitBroken
    /\ probe.run >= 0 => nodes[1].errorCount = probe.run
    /\ probe.run \in 0..4 => ~nodes[1].circuitBroken
    /\ probe.run >= 5 => nodes[1].circuitBroken

\* the fifth error in a row has just been recorded on a new node
C14_Witness ==
    /\ probe.run = 5
    /\ nodes[1].errorCount = 5
    /\ nodes[1].circuitBroken

\* ------------------------------------------------------------------------
\* C15: from the error that opens it the breaker reports open (TryAcquire
\* returns CircuitBroken) until a success brings the consecutive error count
\* to 0 or more than 30s pass since the last error; nothing else ends the
\* open state, and after either event the breaker reports closed and
\* TryAcquire no longer returns CircuitBroken.
C15_BreakerRecovery ==
    [][LET n == nodes[1]
           n2 == nodes'[1]
           open == n.circuitBroken /\ ~n.expired
           open2 == n2.circuitBroken /\ ~n2.expired
       IN  /\ (open /\ ~open2) =>
                 \/ NodeRecordMetric(FALSE) /\ n2.errorCount = 0
                 \/ BreakerTimeout(1)
           /\ (NodeRecordMetric(FALSE) /\ n2.errorCount = 0) => ~open2
           /\ BreakerTimeout(1) => ~open2
           /\ \A c \in NodeUsers, cancelled \in BOOLEAN, ctxFirst \in BOOLEAN :
                 NodeTryAcquire(c, cancelled, ctxFirst) =>
                    /\ open => (probe'.err = "CircuitBroken" /\ calls'[c].pc # "op")
                    /\ ~open => probe'.err # "CircuitBroken"]_vars

\* a TryAcquire call succeeded on a node whose circuitBroken flag was set,
\* more than 30s after its last error
C15_Witness ==
    /\ probe.flag
    /\ probe.err = ""
    /\ \E c \in NodeUsers : calls[c].pc = "op"

\* ------------------------------------------------------------------------
\* C16: at equal priority and latency Node.Score is strictly decreasing in
\* the consecutive error count and strictly decreasing in the lag
\* max(0, globalMax - observedHeight): more errors or a larger lag always
\* gives a strictly lower score.
C16_ScoreMonotonic ==
    "scores" \in DOMAIN probe =>
        \A i, j \in 1..2 :
            LET lag(n) == Max(0, globalHeight - n.latestBlock)
            IN  /\ ( /\ nodes[i].errorCount > nodes[j].errorCount
                     /\ lag(nodes[i]) = lag(nodes[j]) )
                   => probe.scores[i] < probe.scores[j]
                /\ ( /\ lag(nodes[i]) > lag(nodes[j])
                     /\ nodes[i].errorCount = nodes[j].errorCount )
                   => probe.scores[i] < probe.scores[j]

\* ------------------------------------------------------------------------
\* C17: a node that pickAvailableNodeWithHeight returns without blocking
\* meets the required height, could be acquired, and no node of higher score
\* both met the height and could be acquired (with a cancelled ctx a node
\* with a semaphore may have been passed over); with a live ctx a node is
\* returned whenever one meets the height and can be acquired, so busy,
\* rate-limited and circuit-broken nodes are passed over for the next one.
C17_FirstAvailable ==
    "kind" \in DOMAIN probe =>
        LET b == probe.before
            meets(i) == probe.req = 0 \/ b[i].latestBlock >= probe.req
            free(i) == /\ ~(b[i].circuitBroken /\ ~b[i].expired)
                       /\ ~(b[i].RateLimit > 0 /\ b[i].tokens = 0)
                       /\ ~(b[i].MaxConcurrent > 0 /\ b[i].sem = b[i].MaxConcurrent)
            ahead(j, i) == Score(b[j], globalHeight) > Score(b[i], globalHeight)
        IN  /\ probe.kind = "acquired" =>
                  /\ meets(probe.node)
                  /\ free(probe.node)
                  /\ \A j \in 1..Len(b) :
                        ahead(j, probe.node) =>
                            \/ ~(meets(j) /\ free(j))
                            \/ (probe.cancelled /\ b[j].MaxConcurrent > 0)
            /\ (~probe.cancelled /\ \E i \in 1..Len(b) : meets(i) /\ free(i))
                  => probe.kind = "acquired"

\* a call with a required height got a node after passing over a node of
\* higher score that met the height but had no free permit
C17_Witness ==
    /\ "kind" \in DOMAIN probe
    /\ probe.kind = "acquired"
    /\ probe.req > 0
    /\ \E j \in 1..Len(probe.before) :
          /\ Score(probe.before[j], globalHeight) > Score(probe.before[probe.node], globalHeight)
          /\ probe.before[j].latestBlock >= probe.req
          /\ probe.before[j].sem = probe.before[j].MaxConcurrent

\* ------------------------------------------------------------------------
\* C18: when the required height is positive and no node of the pool has
\* reached it, pickAvailableNodeWithHeight returns NoNodeMeetsHeight whatever
\* the breaker, rate and concurrency states of the nodes.
C18_NoNodeMeetsHeight ==
    ( /\ "kind" \in DOMAIN probe
      /\ probe.req > 0
      /\ \A i \in 1..Len(probe.before) : probe.before[i].latestBlock < probe.req )
    => (probe.kind = "error" /\ probe.err = "NoNodeMeetsHeight")

\* ------------------------------------------------------------------------
\* C19: when no node could be acquired without blocking,
\* pickAvailableNodeWithHeight waits on the node of highest score among those
\* that are not circuit-broken and meet the required height, and returns an
\* error only when there is no such node.
C19_BlockingFallback ==
    ("kind" \in DOMAIN probe /\ probe.kind # "acquired") =>
        LET b == probe.before
            ok(i) == /\ ~(b[i].circuitBroken /\ ~b[i].expired)
                     /\ (probe.req = 0 \/ b[i].latestBlock >= probe.req)
        IN  IF \E i \in 1..Len(b) : ok(i)
            THEN /\ probe.kind = "wait"
                 /\ ok(probe.node)
                 /\ \A j \in 1..Len(b) :
                       ok(j) => Score(b[j], globalHeight) <= Score(b[probe.node], globalHeight)
            ELSE probe.kind = "error"

\* C20: when a round of syncNodes ends in which at least one node answered
\* BlockNumber, the global height becomes the maximum of the heights the
\* nodes returned in that round, whatever the order of the goroutines' loads
\* and stores of maxH.
C20_SyncMax ==
    [][SyncFinish /\ sync.answered # {} => globalHeight' = SetMax(sync.answered)]_vars

\* ------------------------------------------------------------------------
\* C21: Client.Send makes at most MaxAttempts HTTP requests for a batch; a
\* response with a status in [200,300) ends the call with success, and if it
\* answers attempt k exactly k requests were made; a call that returns success
\* for a non-empty batch ended on such a response; after MaxAttempts failed
\* attempts (other status or transport error) the call has returned an error.
C21_RetryBound ==
    LET k == Len(hook.results)
        ok(j) == /\ ~hook.results[j].err
                 /\ hook.results[j].status >= 200
                 /\ hook.results[j].status < 300
    IN  /\ Len(hook.requests) <= hook.cfg.MaxAttempts
        /\ k <= hook.cfg.MaxAttempts
        /\ \A j \in 1..k : ok(j) => /\ j = k
                                    /\ hook.pc = "ret"
                                    /\ hook.ret = "nil"
                                    /\ Len(hook.requests) = k
        /\ (hook.pc = "ret" /\ hook.ret = "nil" /\ hook.logs # << >>) => (k >= 1 /\ ok(k))
        /\ (k = hook.cfg.MaxAttempts /\ \A j \in 1..k : ~ok(j))
              => (hook.pc = "ret" /\ hook.ret \in {"Failed", "Canceled"})

\* status 500 on the first request, 200 on the second, MaxAttempts = 3
C21_Witness ==
    /\ hook.cfg.MaxAttempts = 3
    /\ hook.pc = "ret"
    /\ hook.ret = "nil"
    /\ Len(hook.requests) = 2
    /\ hook.results[1].status = 500
    /\ hook.results[2].status = 200

\* ------------------------------------------------------------------------
\* C22: the first wait of a Send call is InitialBackoff, each later wait is
\* twice the one before capped at MaxBackoff, and no wait between two attempts
\* exceeds MaxBackoff, for every InitialBackoff and MaxBackoff.
C22_BackoffCapped ==
    /\ Len(hook.waits) >= 1 => hook.waits[1] = hook.cfg.InitialBackoff
    /\ \A j \in 1..Len(hook.waits) : hook.waits[j] <= hook.cfg.MaxBackoff

\* ------------------------------------------------------------------------
\* C23: a step of Send taken at the test before an attempt or in the backoff
\* wait while the ctx is cancelled returns the ctx error and sends no request.
C23_Cancellation ==
    [][(hook.cancelled /\ hook.pc \in {"check", "wait"} /\ hook'.pc # hook.pc)
         => (hook'.pc = "ret" /\ hook'.ret = "Canceled" /\ hook'.requests = hook.requests)]_vars

\* C23 (amended): the same for the test before an attempt and for a backoff
\* wait whose timer has not expired; and once the ctx is cancelled no request
\* is sent any more.
C23_CancellationUnexpired ==
    [][/\ (hook.cancelled /\ hook.pc \in {"check", "wait"} /\ hook'.pc # hook.pc
             /\ ~(hook.pc = "wait" /\ hook.timer))
          => (hook'.pc = "ret" /\ hook'.ret = "Canceled")
       /\ hook.cancelled => hook'.requests = hook.requests]_vars

\* the ctx was cancelled during the first backoff wait, before its timer expired
C23_Witness ==
    /\ hook.pc = "ret"
    /\ hook.ret = "Canceled"
    /\ Len(hook.waits) = 1
    /\ ~hook.timer
    /\ Len(hook.requests) = 1
    /\ hook.cfg.MaxAttempts = 3

\* ------------------------------------------------------------------------
\* C24: every request of a batch has the X-Scanner-Signature header exactly
\* when the secret is not empty, its value is the hex HMAC of the secret over
\* the body of that request, and all requests of the batch are identical.
C24_Signature ==
    \A j \in 1..Len(hook.requests) :
        LET r == hook.requests[j]
        IN  /\ r.signed <=> hook.secret # << >>
            /\ r.signed => r.signature = EncodeToString(HmacSHA256(hook.secret, r.body))
            /\ r.body = <<r.body[1]>> \o hook.logs
            /\ r = hook.requests[1]

\* a signed batch is retried after the clock has moved on
C24_Witness ==
    /\ Len(hook.requests) = 2
    /\ hook.requests[2].signed
    /\ hook.now = 1
    /\ hook.requests[2].body[1] = 0

\* ------------------------------------------------------------------------
\* C25: in async mode a Send that has reached its select never has to wait
\* for an HTTP request: there is room on the queue or a worker is ready to
\* take a batch, however many batches were enqueued before and however long
\* the endpoint takes.
C25_SendNonBlocking ==
    \A c \in OutUsers :
        (out.calls[c].kind = "Send" /\ out.calls[c].pc = "select")
           => \/ Len(out.queue) < out.cap
              \/ \E w \in DOMAIN out.workers : out.workers[w].pc = "recv"

\* ------------------------------------------------------------------------
\* C26: a Send called after Close has set the closed flag (so also every Send
\* called after a Close has returned) never reaches the select, puts nothing
\* on the queue and returns the closed error.
C26_SendAfterClose ==
    \A c \in OutUsers :
        (out.calls[c].kind = "Send" /\ out.calls[c].afterClose)
           => /\ out.calls[c].pc \in {"lock", "ret"}
              /\ out.calls[c].pc = "ret" => out.calls[c].ret = "Closed"
              /\ out.calls[c].batch \notin out.accepted
              /\ \A j \in 1..Len(out.queue) : out.queue[j] # out.calls[c].batch

\* a Send called after a Close returned has returned the closed error
C26_Witness ==
    \E c, d \in OutUsers :
        /\ out.calls[c].kind = "Send"
        /\ out.calls[c].afterClose
        /\ out.calls[c].ret = "Closed"
        /\ out.calls[d].kind = "Close"
        /\ out.calls[d].pc = "ret"
        /\ out.calls[d].batch < out.calls[c].batch

\* ------------------------------------------------------------------------
\* C27: under every interleaving of Send and Close calls the queue is closed
\* at most once and no Send puts a batch on a closed queue (no panic).
C27_CloseOnce ==
    /\ out.closes <= 1
    /\ ~out.panic
    /\ \A c \in OutUsers : out.calls[c].pc = "select" => (out.mu = c /\ out.closes = 0)

\* two Close calls have passed their critical section beside an accepted Send
C27_Witness ==
    /\ out.closes = 1
    /\ out.accepted # {}
    /\ \E c, d \in OutUsers :
          /\ c # d
          /\ out.calls[c].kind = "Close" /\ out.calls[c].pc \in {"wait", "ret"}
          /\ out.calls[d].kind = "Close" /\ out.calls[d].pc \in {"wait", "ret"}

\* ------------------------------------------------------------------------
\* C28: when a Close call has returned, every batch a Send returned nil for
\* has been taken from the queue and its client.Send has returned, the queue
\* is empty and every worker has left its loop.
C28_Drain ==
    \A c \in OutUsers :
        (out.calls[c].kind = "Close" /\ out.calls[c].pc = "ret")
           => /\ out.accepted \subseteq out.completed
              /\ out.queue = << >>
              /\ \A w \in DOMAIN out.workers : out.workers[w].pc = "done"

\* Close has returned after two batches were accepted
C28_Witness ==
    /\ Cardinality(out.accepted) >= 2
    /\ \E c \in OutUsers : out.calls[c].kind = "Close" /\ out.calls[c].pc = "ret"

\* ------------------------------------------------------------------------
\* C29: for each batch the handler starts one Send per configured sink, each
\* sink gets exactly one Send with the batch, the handler returns only when
\* every sink's Send has returned, and it returns nil whatever the sinks
\* returned.
C29_FanOut ==
    /\ fan.pc = "wait" => \A s \in fan.sinks : fan.state[s] # "idle"
    /\ \A s \in fan.sinks : fan.sends[s] <= 1
    /\ fan.pc = "ret"
         => /\ fan.ret = "nil"
            /\ \A s \in fan.sinks : /\ fan.state[s] \in {"nil", "err"}
                                    /\ fan.sends[s] = 1
                                    /\ fan.got[s] = fan.decodedLogs

\* the handler has returned after one of two sinks failed
C29_Witness ==
    /\ fan.pc = "ret"
    /\ fan.sinks = {1, 2}
    /\ fan.state[1] = "err"
    /\ fan.state[2] = "nil"
    /\ fan.logs # << >>

\* ------------------------------------------------------------------------
\* C30: what a sink receives for a batch contains no log whose decoding
\* failed (no topics, unknown signature, topic count mismatch, bad data), and
\* contains the other logs of the batch.
C30_DecodeFailureDropped ==
    \A s \in fan.sinks :
        fan.sends[s] > 0
          => /\ \A j \in 1..Len(fan.got[s]) : Decode(fan.got[s][j].Log).err = ""
             /\ \A j \in 1..Len(fan.logs) :
                   Decode(fan.logs[j]).err = ""
                     => \E k \in 1..Len(fan.got[s]) : fan.got[s][k].Log = fan.logs[j]

\* ------------------------------------------------------------------------
\* C31: a webhook sink built by NewWebhookOutput from a retry configuration
\* (maxAttempts, initialBackoff = b, maxBackoff = m) retries with those
\* values: the first retry wait is b and no wait exceeds m.
\* Violated: the client waits 1s first (and up to 10s) whatever b and m are.
\* ------------------------------------------------------------------------
C31_SinkRetryConfig ==
    out.pc = "sync" =>
        /\ (hook.waits # << >> => hook.waits[1] = out.retry.InitialBackoff)
        /\ \A k \in 1..Len(hook.waits) : hook.waits[k] <= out.retry.MaxBackoff

\* ------------------------------------------------------------------------
\* C32: within one execute call each attempt picks a node, runs op and
\* releases the node's permit before the next pick, so a call never holds more
\* than one concurrency permit.
\* Violated: Release is deferred to the return of execute, so the permits of
\* the failed attempts are still held at the next pick.
\* ------------------------------------------------------------------------
C32_OnePermitPerCall ==
    \A c \in Callers :
        LET permits == {k \in 1..Len(calls[c].held) :
                            nodes[calls[c].held[k]].MaxConcurrent > 0}
        IN  /\ Cardinality(permits) <= 1
            /\ calls[c].pc = "pick" => permits = {}

C34_NoSelfWait ==
    \A c \in Callers :
        calls[c].pc = "waitSem" =>
            \A k \in 1..Len(calls[c].held) :
                calls[c].held[k] = calls[c].node => nodes[calls[c].node].MaxConcurrent = 0

\* ------------------------------------------------------------------------
\* C35: permit conservation.  Every permit taken from a node's semaphore
\* belongs to one deferred Release of a call in progress and is given back
\* when that call returns: the semaphore never goes below empty (no Release
\* without a permit), and with no call in progress CurrentConcurrency is 0 on
\* every node.
\* ------------------------------------------------------------------------
C35_PermitConservation ==
    /\ \A n \in 1..Len(nodes) :
          /\ nodes[n].sem >= 0
          /\ nodes[n].MaxConcurrent > 0 =>
                nodes[n].sem = Cardinality({ck \in Callers \X (1..3) :
                                   /\ ck[2] <= Len(calls[ck[1]].held)
                                   /\ calls[ck[1]].held[ck[2]] = n})
    /\ (\A c \in Callers : calls[c].pc \in {"idle", "ret"}) =>
          \A n \in 1..Len(nodes) : nodes[n].sem = 0

\* execute has returned after two attempts on nodes with a concurrency limit
C35_Witness ==
    /\ calls[1].pc = "ret"
    /\ Len(calls[1].trace) = 2
    /\ \A n \in 1..Len(nodes) : nodes[n].MaxConcurrent > 0 /\ nodes[n].sem = 0

\* ------------------------------------------------------------------------
\* C36: whenever IsCircuitBroken reports open, the consecutive error count was
\* at least 5 at the most recent recorded error; and after a recovery through
\* the 30s timeout one further error that leaves the count below 5 does not
\* make the breaker report open again.
\* Violated: the circuitBroken flag is cleared only when the count is back at
\* 0, so an error recorded while the flag is still set renews lastErrorTime
\* and the breaker reports open with a count below 5.
\* ------------------------------------------------------------------------
C36_OpenOnlyAtThreshold ==
    [][NodeRecordMetric(TRUE) =>
          /\ IsCircuitBroken(nodes'[1]) => nodes'[1].errorCount >= 5
          /\ (nodes[1].circuitBroken /\ nodes[1].expired /\ nodes'[1].errorCount < 5)
                => ~IsCircuitBroken(nodes'[1])]_vars

\* ------------------------------------------------------------------------
\* C37: the head MultiClient.BlockNumber returns (the cached globalHeight,
\* once a sync round has stored one) never decreases from one sync round to
\* the next, also when the node that was highest fails in the later round.
\* Violated: every round starts its maximum at 0 and stores it over
\* globalHeight, so a round in which only lower nodes answer lowers the head.
\* ------------------------------------------------------------------------
C37_HeadMonotonic ==
    [][globalHeight' >= globalHeight]_vars

C39_NoGaps ==
    [][/\ (pc # "start" /\ currentBlock' # currentBlock) =>
              /\ pc = "scan"
              /\ last'.res = "ok"
              /\ scanFrom = currentBlock
              /\ currentBlock' = scanTo + 1
       /\ pc' = "scan" =>
              /\ scanFrom' = currentBlock'
              /\ scanFrom' <= scanTo'
              /\ scanTo' - scanFrom' + 1 <= config.BatchSize]_vars

\* a second range of two blocks is being scanned, right after the first
C39_Witness ==
    /\ pc = "scan"
    /\ last.res = "ok"
    /\ scanFrom > last.from
    /\ scanTo = scanFrom + 1
    /\ config.BatchSize = 2

\* ------------------------------------------------------------------------
\* C40: catch-up liveness.  With a context that is never cancelled, ticks that
\* keep firing, a head fixed at H >= reorgSafe and scanRange calls that
\* eventually succeed, the position of the loop eventually reaches
\* H - reorgSafe + 1 and from then on no scanRange call is issued.
\* As stated this fails for a scanner that starts above H - reorgSafe + 1 (a
\* saved cursor beyond the safe head): it issues no call and stays where it
\* started.
\* ------------------------------------------------------------------------
C40_CatchUp ==
    (pc = "select") ~>
        [](pc = "select" /\ currentBlock = globalHeight - config.ReorgSafe + 1)

\* C40, for a start block of at most H - reorgSafe + 1; a scanner that starts
\* above it issues no scanRange call and keeps its position
C40_CatchUpFromBelow ==
    /\ (pc = "select" /\ currentBlock <= globalHeight - config.ReorgSafe + 1) ~>
          [](pc = "select" /\ currentBlock = globalHeight - config.ReorgSafe + 1)
    /\ [][(pc = "select" /\ currentBlock > globalHeight - config.ReorgSafe + 1)
             => (pc' = "select" /\ currentBlock' = currentBlock)]_vars

\* the loop is back at its outer select, caught up by successful scanRange
\* calls whose cursor was saved
C40_Witness ==
    /\ pc = "select"
    /\ globalHeight > 0
    /\ currentBlock = globalHeight - config.ReorgSafe + 1
    /\ last.res = "ok"
    /\ last.from > 0
    /\ savedInRun

====
